---- MODULE Spec2Model ----
(***************************************************************************)
(* A model of the coordination core of the conversational-agent backend:   *)
(*   - InMemoryEventBus            (src/unnamed/part_005, lines 39-307)    *)
(*   - DependencyInjectionContainer (src/unnamed/part_004)                 *)
(*   - SubconsciousAgent           (src/src/agents/governance-agent.ts)    *)
(*   - BaseAgent and PrimaryAgent  (part_005 lines 436-571, part_006)      *)
(*   - SummarizationAgent          (governance-agent.ts, lines 287-487)    *)
(* Each component has its own specification (SpecBus, SpecRegistry,        *)
(* SpecAgent); the variables of the other components stay at their         *)
(* initial value.                                                          *)
(***************************************************************************)
EXTENDS Integers, Sequences, FiniteSets, Bags, TLC

VARIABLES
    \* ---- InMemoryEventBus ----
    listeners,             \* EventEmitter listener arrays: type -> Seq([h, seq])
    patternSubscriptions,  \* Map<pattern, Set<handler>> in insertion order
    eventHistory,          \* AgentEvent[] (event ids)
    stats,                 \* [totalEvents, errorCount]
    config,                \* EventBusConfig
    pub,                   \* the publish() calls: slot -> [st, event, calls]
    nextId,                \* ids handed to published events
    subSeq,                \* history: number of subscribe calls made so far
    raisedErrors,          \* history: errors raised so far (a handler threw or
                           \* rejected, or publish rejected the event)
    accepted,              \* history: ids of the events that passed validateEvent,
                           \* in publish order
    \* ---- DependencyInjectionContainer ----
    services,              \* Map<string, ServiceEntry>
    initializationStack,   \* string[]
    frames,                \* the createInstance activations on the call stack
    exc,                   \* the error being thrown up the call stack
    call,                  \* the get / initializeAll call in progress
    ret,                   \* what the last get / initializeAll call gave its caller
    nextObj,               \* identity of the next object a factory creates
    factoryCalls,          \* history: factory invocations per registration
    factoryReturns,        \* history: factory invocations that returned a value
    created,               \* history: names in the order their instance was set
    overwritten,           \* history: a registration replaced an existing entry
    regCount,              \* history: register calls made
    opCount,               \* history: get / initializeAll calls made
    teardown,              \* the destroy() call: [st, queue]
    destroyed,             \* history: names whose destroy hook was invoked, in order
    \* ---- SubconsciousAgent ----
    context,               \* AgentContext (undefined before initialize)
    status,                \* AgentStatus
    agentConfig,           \* SubconsciousAgentConfig
    processingTimer,       \* the armed interval (the time it is next due) or undefined
    now,                   \* the clock, in ms
    conversationBuffer,    \* ConversationEvent[]
    passes,                \* bag of the analysis passes awaiting their completion
    nextTurn,              \* arrival number of the next conversation.turn event
    analysed,              \* history: turns that were in the transcript of a pass
    firstSinceClear,       \* history: arrival number of the first turn after the last clear
    ticks,                 \* history: scheduled ticks since the timer was last armed
    startedAt,             \* history: when the timer was last armed
    stoppedAt,             \* history: when stop() first returned since then, if it did
    \* ---- BaseAgent / PrimaryAgent ----
    primary,               \* [context, status, metrics] of the primary agent
    handling,              \* bag of the handleEvent calls in progress
    tally,                 \* history: what became of the handleEvent and initialize calls
    \* ---- SummarizationAgent ----
    currentSummary,        \* CallSummary: [summary, topics, keyPoints]
    llm,                   \* bag of the passes that wait for the model's completion
    malformed,             \* the buffered turns whose data cannot be read
    effects,               \* what the latest step of the agent did
    firstFailure,          \* history: first tick since the timer was armed that threw
    topicsSeen,             \* history: the topics the results merged so far contained
    \* ---- SubconsciousAgent: timer and metrics ----
    subconscious,   \* [context, status, processingTimer, metrics] of a subconscious agent
    intervals,   \* the intervals the runtime keeps firing
    ledger,   \* history: the calls made on the agent and the ticks that fired
    \* ---- Event ids ----
    wallClock,   \* Date.now(), in ms
    uuids,   \* number of uuidv4() values drawn
    issued,   \* history: the ids of the events published, in order
    \* ---- DefaultPluginRegistry ----
    toolPlugins,   \* the Map of tool plugins, in iteration order: [name, tools, registeredAt]
    registrations,   \* number of registerToolPlugin calls made
    dispatch,   \* outcome of the latest executeTool call
    \* ---- PrimaryAgent: streamed completion ----
    stream,   \* this.stream of the primary agent: the completion it refers to, or Undefined
    conversationHistory,   \* the messages of the primary agent
    generating,   \* the generateResponse call in progress: [id, state, aborted, text]
    emissions,   \* history: the events generateResponse published, in order
    aborts   \* history: the abort() calls that aborted a stream

busVars == <<listeners, patternSubscriptions, eventHistory, stats, config, pub,
             nextId, subSeq, raisedErrors, accepted>>

regVars == <<services, initializationStack, frames, exc, call, ret, nextObj,
             factoryCalls, factoryReturns, created, overwritten, regCount, opCount,
             teardown, destroyed>>

agentVars == <<context, status, agentConfig, processingTimer, now, conversationBuffer,
               passes, nextTurn, analysed, firstSinceClear, ticks, startedAt, stoppedAt>>

primVars == <<primary, handling, tally>>

sumVars == <<currentSummary, llm, malformed, effects, firstFailure, topicsSeen>>

schedVars == <<subconscious, intervals, ledger>>

idVars == <<wallClock, uuids, issued>>

pluginVars == <<toolPlugins, registrations, dispatch>>

streamVars == <<stream, conversationHistory, generating, emissions, aborts>>

vars == <<busVars, regVars, agentVars, primVars, sumVars, schedVars, idVars, pluginVars, streamVars>>

nonBusVars == <<regVars, agentVars, primVars, sumVars, schedVars, idVars, pluginVars, streamVars>>
nonRegVars == <<busVars, agentVars, primVars, sumVars, schedVars, idVars, pluginVars, streamVars>>
nonAgentVars == <<busVars, regVars, primVars, sumVars, schedVars, idVars, pluginVars, streamVars>>
nonPrimVars == <<busVars, regVars, agentVars, sumVars, schedVars, idVars, pluginVars, streamVars>>
nonAnalysisVars == <<busVars, regVars, primVars, schedVars, idVars, pluginVars, streamVars>>
nonSchedulerVars == <<busVars, regVars, agentVars, primVars, sumVars, idVars, pluginVars, streamVars>>
nonIdVars == <<busVars, regVars, agentVars, primVars, sumVars, schedVars, pluginVars, streamVars>>
nonPluginVars == <<busVars, regVars, agentVars, primVars, sumVars, schedVars, idVars, streamVars>>
nonStreamVars == <<busVars, regVars, agentVars, primVars, sumVars, schedVars, idVars, pluginVars>>
nonForegroundVars == <<regVars, primVars, schedVars, idVars, pluginVars, streamVars>>

(***************************************************************************)
(* Bounds of the model.                                                    *)
(***************************************************************************)
MaxEvents == 1      \* publish calls explored
MaxSubs == 2        \* subscribe / subscribeToPattern calls explored
HistoryLimit == 3   \* the configured historyLimit explored
MaxPublishes == 5   \* publish calls explored for the history
MaxRegs == 2        \* register / registerInstance calls explored
MaxOps == 2         \* top-level get / initializeAll calls explored
MaxTime == 3000     \* the clock stops here (ms)
MaxTurns == 2       \* conversation.turn events delivered
MaxInFlight == 1    \* passes in flight when an end event or a request arrives
MaxSummarized == 1      \* turns delivered to the summarization agent
MaxForeground == 2      \* publish calls of the foreground explored
MaxStarts == 2          \* start() calls without a stop() between them
MaxFires == 2           \* callbacks of the agent's intervals that run
MaxRequests == 1        \* analysis.request events handed to handleEvent
MaxIssued == 3          \* events published with an id of one of the helpers
MaxClock == 2           \* milliseconds the wall clock advances
MaxPlugins == 3         \* registerToolPlugin calls explored
MaxCompletions == 2     \* human turns the primary agent answers
MaxChunks == 2          \* chunks with text a completion streams
MaxHanded == 2      \* handleEvent calls made by the primary agent's caller

(***************************************************************************)
(* Sequence helpers.                                                       *)
(***************************************************************************)
Range(s) == {s[i] : i \in 1..Len(s)}

RemoveAt(s, i) == SubSeq(s, 1, i - 1) \o SubSeq(s, i + 1, Len(s))

\* Array.prototype.slice(-n) for n > 0: the last n elements.
SliceLast(s, n) == IF Len(s) <= n THEN s ELSE SubSeq(s, Len(s) - n + 1, Len(s))

RECURSIVE Flatten(_)
Flatten(ss) == IF ss = <<>> THEN <<>> ELSE Head(ss) \o Flatten(Tail(ss))

(***************************************************************************)
(* InMemoryEventBus                                                        *)
(***************************************************************************)
Handlers == {"h1", "h2"}

\* The listener the constructor installs with this.on('error', ...).
ErrorListener == "errorListener"

\* Event types and patterns are strings, written as their sequence of
\* tokens: "conversation.turn" is <<"conversation", ".", "turn">>.
TypeError == <<"error">>
TypeTurn == <<"conversation", ".", "turn">>
TypeStart == <<"conversation", ".", "start">>
TypeSystemError == <<"system", ".", "error">>
TypeEnd == <<"conversation", ".", "end">>
Types == {TypeError, TypeTurn, TypeStart, TypeSystemError}

\* The types the explored subscribers register for.
SubscribedTypes == {TypeTurn}

PatConversation == <<"conversation", ".", "*">>
PatAny == <<"*">>
Patterns == {PatConversation, PatAny}

\* What a handler does when it is called: return, throw, or return a promise.
CallOutcomes == {"ok", "threw", "pending"}

\* The shapes of the event handed to publish.
EventShapes ==
    {[hasId |-> TRUE, hasSessionId |-> TRUE, hasTimestamp |-> TRUE, data |-> "object"],
     [hasId |-> FALSE, hasSessionId |-> TRUE, hasTimestamp |-> TRUE, data |-> "object"],
     [hasId |-> TRUE, hasSessionId |-> FALSE, hasTimestamp |-> TRUE, data |-> "object"],
     [hasId |-> TRUE, hasSessionId |-> TRUE, hasTimestamp |-> FALSE, data |-> "object"],
     [hasId |-> TRUE, hasSessionId |-> TRUE, hasTimestamp |-> TRUE, data |-> "null"],
     [hasId |-> TRUE, hasSessionId |-> TRUE, hasTimestamp |-> TRUE, data |-> "string"]}

NoEvent == [id |-> 0, type |-> <<>>]

IdlePub == [st |-> "idle", event |-> NoEvent, calls |-> <<>>]

DefaultHistoryLimit == 1000

\* The configurations explored: the default one ({}: everything off), and
\* pattern matching and a limited history switched on.
DefaultBusConfig ==
    [enablePatternMatching |-> FALSE, enableEventHistory |-> FALSE, historyLimit |-> 0]

BusConfigs ==
    {DefaultBusConfig,
     [enablePatternMatching |-> TRUE, enableEventHistory |-> TRUE, historyLimit |-> HistoryLimit]}

\* validateEvent: TRUE when it returns, FALSE when it throws.
validateEvent(t, shape) ==
    /\ shape.hasId
    /\ t # <<>>
    /\ shape.hasSessionId
    /\ shape.hasTimestamp
    /\ shape.data \in {"object", "null"}    \* typeof null === 'object'

addToHistoryKeepOldest(history, event) ==
    LET limit == IF config.historyLimit = 0 THEN DefaultHistoryLimit ELSE config.historyLimit
    IN  IF Len(history) >= limit THEN history ELSE Append(history, event.id)

\* addToHistory: push, then keep the last `limit` (historyLimit || 1000).
addToHistory(history, event) ==
    LET limit == IF config.historyLimit = 0 THEN DefaultHistoryLimit ELSE config.historyLimit
        pushed == Append(history, event.id)
    IN  IF Len(pushed) > limit THEN SliceLast(pushed, limit) ELSE pushed

\* getEventHistory(limit): nothing when the history is off, the last
\* `limit` events for a truthy limit, otherwise a copy of the history.
getEventHistory(limit) ==
    IF ~config.enableEventHistory THEN <<>>
    ELSE IF limit # 0 THEN SliceLast(eventHistory, limit)
    ELSE eventHistory

RECURSIVE matchesPatternSingleSegment(_, _)
matchesPatternSingleSegment(eventType, pattern) ==
    IF pattern = <<>> THEN eventType = <<>>
    ELSE /\ eventType # <<>>
         /\ IF Head(pattern) = "*"
            THEN Head(eventType) # "."
            ELSE Head(eventType) = Head(pattern)
         /\ matchesPatternSingleSegment(Tail(eventType), Tail(pattern))

\* matchesPattern: '.' is escaped, '*' becomes '.*', anchored at both ends.
RECURSIVE matchesPattern(_, _)
matchesPattern(eventType, pattern) ==
    IF pattern = <<>> THEN eventType = <<>>
    ELSE IF Head(pattern) = "*"
         THEN \E k \in 0..Len(eventType) :
                  matchesPattern(SubSeq(eventType, k + 1, Len(eventType)), Tail(pattern))
         ELSE /\ eventType # <<>>
              /\ Head(eventType) = Head(pattern)
              /\ matchesPattern(Tail(eventType), Tail(pattern))

\* safeCallHandler up to its first await: the record of the call.  The
\* constructor's error listener returns normally (and counts an error).
safeCallHandler(entry, via, pseq, outcome) ==
    [h |-> entry.h, seq |-> entry.seq, via |-> via, pseq |-> pseq,
     st |-> IF entry.h = ErrorListener THEN "ok" ELSE outcome]

\* The errorCount increments made while the handlers of `calls` run
\* synchronously: a throw caught by safeCallHandler, or the body of the
\* constructor's error listener.
SyncErrors(calls) ==
    Cardinality({i \in 1..Len(calls) : calls[i].st = "threw" \/ calls[i].h = ErrorListener})

SyncThrows(calls) ==
    Cardinality({i \in 1..Len(calls) : calls[i].st = "threw"})

handleDirectSubscriptionsReversed(ls, outs) ==
    [i \in 1..Len(ls) |-> safeCallHandler(ls[Len(ls) + 1 - i], "direct", 0, outs[i])]

\* handleDirectSubscriptions: every listener of the type, in array order.
handleDirectSubscriptions(ls, outs) ==
    [i \in 1..Len(ls) |-> safeCallHandler(ls[i], "direct", 0, outs[i])]

\* The handlers handlePatternSubscriptions visits: the Map in insertion
\* order, each matching pattern's Set in insertion order.
PatternTargets(eventType) ==
    Flatten([i \in 1..Len(patternSubscriptions) |->
        IF matchesPattern(eventType, patternSubscriptions[i].pattern)
        THEN [j \in 1..Len(patternSubscriptions[i].handlers) |->
                 [h |-> patternSubscriptions[i].handlers[j].h,
                  seq |-> patternSubscriptions[i].handlers[j].seq,
                  pseq |-> patternSubscriptions[i].pseq]]
        ELSE <<>>])

handlePatternSubscriptions(targets, outs) ==
    [i \in 1..Len(targets) |-> safeCallHandler(targets[i], "pattern", targets[i].pseq, outs[i])]

allSettledNotAwaited(calls) == TRUE

\* await Promise.allSettled(promises): no call is still pending.
allSettled(calls) == \A i \in 1..Len(calls) : calls[i].st # "pending"

\* this.listeners(eventType): the listener array, empty for an unknown type.
ListenersOf(t) == IF t \in DOMAIN listeners THEN listeners[t] ELSE <<>>

\* The publish calls that may be in flight together.
Slots == {"p1"}

InFlight(p) == pub[p].st \in {"direct", "pattern"}

InitBus(cfg) ==
    /\ listeners = [t \in Types |-> IF t = TypeError
                                    THEN <<[h |-> ErrorListener, seq |-> 0]>>
                                    ELSE <<>>]
    /\ patternSubscriptions = <<>>
    /\ eventHistory = <<>>
    /\ stats = [totalEvents |-> 0, errorCount |-> 0]
    /\ config = cfg
    /\ pub = [p \in Slots |-> IdlePub]
    /\ nextId = 1
    /\ subSeq = 0
    /\ raisedErrors = 0
    /\ accepted = <<>>

\* subscribe(eventType, handler): this.on appends to the listener array.
Subscribe(t, h) ==
    /\ subSeq' = subSeq + 1
    /\ listeners' = [listeners EXCEPT ![t] = Append(@, [h |-> h, seq |-> subSeq + 1])]
    /\ UNCHANGED <<patternSubscriptions, eventHistory, stats, config, pub, nextId,
                   raisedErrors, accepted>>

\* unsubscribe(eventType, handler): this.off removes the most recently
\* added occurrence of the handler.
Unsubscribe(t, h) ==
    /\ \E i \in 1..Len(listeners[t]) : listeners[t][i].h = h
    /\ LET last == CHOOSE i \in 1..Len(listeners[t]) :
                       /\ listeners[t][i].h = h
                       /\ \A j \in (i + 1)..Len(listeners[t]) : listeners[t][j].h # h
       IN  listeners' = [listeners EXCEPT ![t] = RemoveAt(@, last)]
    /\ UNCHANGED <<patternSubscriptions, eventHistory, stats, config, pub, nextId,
                   subSeq, raisedErrors, accepted>>

PatternIndex(pattern) ==
    IF \E i \in 1..Len(patternSubscriptions) : patternSubscriptions[i].pattern = pattern
    THEN CHOOSE i \in 1..Len(patternSubscriptions) : patternSubscriptions[i].pattern = pattern
    ELSE 0

\* subscribeToPattern(pattern, handler): Map.set for a new pattern, Set.add.
SubscribeToPattern(pattern, h) ==
    /\ subSeq' = subSeq + 1
    /\ LET i == PatternIndex(pattern)
           entry == [h |-> h, seq |-> subSeq + 1]
       IN  patternSubscriptions' =
               IF i = 0
               THEN Append(patternSubscriptions,
                           [pattern |-> pattern, pseq |-> subSeq + 1, handlers |-> <<entry>>])
               ELSE IF \E j \in 1..Len(patternSubscriptions[i].handlers) :
                           patternSubscriptions[i].handlers[j].h = h
                    THEN patternSubscriptions
                    ELSE [patternSubscriptions EXCEPT ![i].handlers = Append(@, entry)]
    /\ UNCHANGED <<listeners, eventHistory, stats, config, pub, nextId,
                   raisedErrors, accepted>>

\* unsubscribeFromPattern(pattern, handler): Set.delete, and Map.delete of a
\* pattern left without handlers.
UnsubscribeFromPattern(pattern, h) ==
    /\ PatternIndex(pattern) # 0
    /\ LET i == PatternIndex(pattern)
           hs == patternSubscriptions[i].handlers
           kept == SelectSeq(hs, LAMBDA e : e.h # h)
       IN  /\ kept # hs
           /\ patternSubscriptions' =
                  IF kept = <<>>
                  THEN RemoveAt(patternSubscriptions, i)
                  ELSE [patternSubscriptions EXCEPT ![i].handlers = kept]
    /\ UNCHANGED <<listeners, eventHistory, stats, config, pub, nextId, subSeq,
                   raisedErrors, accepted>>

\* publish(event), from the call to its first await: validateEvent,
\* addToHistory, and handleDirectSubscriptions calling every listener of
\* the type.  An invalid event takes the catch branch: errorCount++, throw.
PublishStart(p, t, shape, outs) ==
    /\ ~InFlight(p)
    /\ nextId' = nextId + 1
    /\ LET event == [id |-> IF shape.hasId THEN nextId ELSE 0, type |-> t]
           ls == ListenersOf(t)
           calls == handleDirectSubscriptions(ls, outs)
       IN  IF ~validateEvent(t, shape)
           THEN /\ pub' = [pub EXCEPT ![p] = [st |-> "rejected", event |-> NoEvent, calls |-> <<>>]]
                /\ stats' = [stats EXCEPT !.errorCount = @ + 1]
                /\ raisedErrors' = raisedErrors + 1
                /\ UNCHANGED <<eventHistory, accepted>>
           ELSE /\ eventHistory' = IF config.enableEventHistory
                                   THEN addToHistory(eventHistory, event)
                                   ELSE eventHistory
                /\ pub' = [pub EXCEPT ![p] = [st |-> "direct", event |-> event, calls |-> calls]]
                /\ stats' = [stats EXCEPT !.errorCount = @ + SyncErrors(calls)]
                /\ raisedErrors' = raisedErrors + SyncThrows(calls)
                /\ accepted' = Append(accepted, event.id)
    /\ UNCHANGED <<listeners, patternSubscriptions, config, subSeq>>

\* The promise a handler returned settles; safeCallHandler resumes after
\* `await result` and counts a rejection.
SettleHandler(p, i, rejects) ==
    /\ InFlight(p)
    /\ i \in 1..Len(pub[p].calls)
    /\ pub[p].calls[i].st = "pending"
    /\ pub' = [pub EXCEPT ![p].calls[i].st = IF rejects THEN "rejected" ELSE "resolved"]
    /\ stats' = [stats EXCEPT !.errorCount = @ + (IF rejects THEN 1 ELSE 0)]
    /\ raisedErrors' = raisedErrors + (IF rejects THEN 1 ELSE 0)
    /\ UNCHANGED <<listeners, patternSubscriptions, eventHistory, config, nextId, subSeq,
                   accepted>>

\* publish resumes after `await this.handleDirectSubscriptions(event)`.
\* With pattern matching enabled it calls the matching pattern handlers and
\* awaits them; otherwise it goes on to updateStats and returns.
PublishPatterns(p, outs) ==
    /\ pub[p].st = "direct"
    /\ allSettled(pub[p].calls)
    /\ IF config.enablePatternMatching
       THEN LET calls == handlePatternSubscriptions(PatternTargets(pub[p].event.type), outs)
            IN  /\ pub' = [pub EXCEPT ![p].st = "pattern", ![p].calls = @ \o calls]
                /\ stats' = [stats EXCEPT !.errorCount = @ + SyncErrors(calls)]
                /\ raisedErrors' = raisedErrors + SyncThrows(calls)
       ELSE /\ pub' = [pub EXCEPT ![p].st = "resolved"]
            /\ stats' = [stats EXCEPT !.totalEvents = @ + 1]
            /\ UNCHANGED raisedErrors
    /\ UNCHANGED <<listeners, patternSubscriptions, eventHistory, config, nextId, subSeq,
                   accepted>>

\* publish resumes after `await this.handlePatternSubscriptions(event)`:
\* updateStats, and the promise resolves.
PublishFinish(p) ==
    /\ pub[p].st = "pattern"
    /\ allSettled(pub[p].calls)
    /\ pub' = [pub EXCEPT ![p].st = "resolved"]
    /\ stats' = [stats EXCEPT !.totalEvents = @ + 1]
    /\ UNCHANGED <<listeners, patternSubscriptions, eventHistory, config, nextId, subSeq,
                   raisedErrors, accepted>>

NextBus ==
    \/ \E t \in SubscribedTypes, h \in Handlers :
           subSeq < MaxSubs /\ Subscribe(t, h) /\ UNCHANGED nonBusVars
    \/ \E t \in SubscribedTypes, h \in Handlers : Unsubscribe(t, h) /\ UNCHANGED nonBusVars
    \/ \E pattern \in Patterns, h \in Handlers :
           subSeq < MaxSubs /\ SubscribeToPattern(pattern, h) /\ UNCHANGED nonBusVars
    \/ \E pattern \in Patterns, h \in Handlers :
           UnsubscribeFromPattern(pattern, h) /\ UNCHANGED nonBusVars
    \/ \E p \in Slots, t \in Types \cup {<<>>}, shape \in EventShapes :
           \E outs \in [1..Len(ListenersOf(t)) -> CallOutcomes] :
               nextId <= MaxEvents /\ PublishStart(p, t, shape, outs)
               /\ UNCHANGED nonBusVars
    \/ \E p \in Slots, i \in 1..MaxSubs + 1, rejects \in BOOLEAN : 
           SettleHandler(p, i, rejects) /\ UNCHANGED nonBusVars
    \/ \E p \in Slots :
           \E outs \in [1..Len(PatternTargets(pub[p].event.type)) -> CallOutcomes] :
               PublishPatterns(p, outs) /\ UNCHANGED nonBusVars
    \/ \E p \in Slots : PublishFinish(p) /\ UNCHANGED nonBusVars

\* The configurations explored for the history: a limited history, and an
\* enabled history without historyLimit.
HistoryConfigs ==
    {[enablePatternMatching |-> TRUE, enableEventHistory |-> TRUE, historyLimit |-> HistoryLimit],
     [enablePatternMatching |-> FALSE, enableEventHistory |-> TRUE, historyLimit |-> 0]}

\* The bus with many publish calls and at most one subscription.
NextHistory ==
    \/ \E t \in SubscribedTypes, h \in Handlers :
           subSeq = 0 /\ Subscribe(t, h) /\ UNCHANGED nonBusVars
    \/ \E pattern \in Patterns, h \in Handlers :
           subSeq = 0 /\ SubscribeToPattern(pattern, h) /\ UNCHANGED nonBusVars
    \/ \E p \in Slots, t \in Types \cup {<<>>}, shape \in EventShapes :
           \E outs \in [1..Len(ListenersOf(t)) -> CallOutcomes] :
               nextId <= MaxPublishes /\ PublishStart(p, t, shape, outs)
               /\ UNCHANGED nonBusVars
    \/ \E p \in Slots, i \in {1, 2}, rejects \in BOOLEAN :
           SettleHandler(p, i, rejects) /\ UNCHANGED nonBusVars
    \/ \E p \in Slots :
           \E outs \in [1..Len(PatternTargets(pub[p].event.type)) -> CallOutcomes] :
               PublishPatterns(p, outs) /\ UNCHANGED nonBusVars
    \/ \E p \in Slots : PublishFinish(p) /\ UNCHANGED nonBusVars

(***************************************************************************)
(* DependencyInjectionContainer                                            *)
(***************************************************************************)
\* The service names, in the order Array.prototype.sort gives them.
NameOrder == <<"a", "b", "c">>
Names == Range(NameOrder)

\* A factory is written as the statements of its body that mention the
\* registry.  "call": registry.get('x'), executed;  "hidden": a get the
\* text scan does not see (r.get('x'), registry.get(name)), executed;
\* "lazy": registry.get('x') inside a closure the factory returns, not
\* executed while the factory runs.
StmtKinds == {"call", "hidden", "lazy"}
Stmts == [kind : StmtKinds, name : Names]
Srcs == {<<>>} \cup {<<st>> : st \in Stmts}

\* Instance values: 0 is undefined (no instance), -1 a falsy value
\* (0, '', null, false), a positive number the identity of an object.
Undefined == 0
Falsy == 0 - 1

\* How a factory body ends when it is invoked: it returns an object
\* without or with a destroy() method, returns a falsy value, throws, or
\* returns a promise.
FactoryOutcomes == {"object", "destroyable", "falsy", "throw", "promise"}

\* The values handed to registerInstance.
InstanceKinds == {"object", "destroyable", "falsy"}

\* How a destroy hook ends when it is invoked: it returns, throws, or
\* returns a promise that settles later.
HookOutcomes == {"returns", "throws", "pending"}

\* The constructor's defaults (part_004 lines 45-50).
enableCircularDependencyDetection == TRUE
enableLazyLoading == TRUE

RECURSIVE Dedup(_)
Dedup(s) ==
    IF s = <<>> THEN <<>>
    ELSE LET rest == Dedup(SubSeq(s, 1, Len(s) - 1))
         IN  IF s[Len(s)] \in Range(rest) THEN rest ELSE Append(rest, s[Len(s)])

\* extractDependencies: the names in the registry.get('...') texts of the
\* factory source, first occurrences only.
extractDependencies(src) ==
    LET seen == SelectSeq(src, LAMBDA st : st.kind \in {"call", "lazy"})
    IN  Dedup([i \in 1..Len(seen) |-> seen[i].name])

\* The registry.get calls a factory makes while it runs.
Executed(src) ==
    LET run == SelectSeq(src, LAMBDA st : st.kind \in {"call", "hidden"})
    IN  [i \in 1..Len(run) |-> run[i].name]

\* hook: the instance has a destroy() method.  mark (history): the
\* identity the next new object had when the entry was registered.
NoEntry ==
    [registered |-> FALSE, src |-> <<>>, fixed |-> Undefined, lifecycle |-> "registered",
     instance |-> Undefined, dependencies |-> <<>>, error |-> FALSE, hook |-> FALSE,
     mark |-> 0]

\* failed: the hook failures destroy() has logged.
NoTeardown == [st |-> "idle", queue |-> <<>>, failed |-> 0]

NoExc == [kind |-> "none", path |-> <<>>]
Idle == [op |-> "none", queue |-> <<>>, results |-> <<>>]
NoRet == [op |-> "none", name |-> "", kind |-> "none", value |-> Undefined,
          err |-> NoExc, results |-> <<>>]

\* list(): the registered names, sorted.
list == SelectSeq(NameOrder, LAMBDA n : services[n].registered)

CyclePathNameOnly(stack, name) == <<name>>

\* [...this.initializationStack, name].join(' -> ')
CyclePath(stack, name) == Append(stack, name)

\* get(name) up to the point where it returns, throws or enters the
\* factory: which of these it does.
GetKind(name) ==
    IF ~services[name].registered THEN "unregistered"
    ELSE IF services[name].instance > 0 THEN "cached"          \* if (entry.instance)
    ELSE IF ~(enableLazyLoading \/ services[name].lifecycle = "registered") THEN "notInitialized"
    ELSE IF enableCircularDependencyDetection /\ name \in Range(initializationStack)
         THEN "circular"
    ELSE "create"

GetError(name) ==
    IF GetKind(name) = "circular"
    THEN [kind |-> "circular", path |-> CyclePath(initializationStack, name)]
    ELSE [kind |-> GetKind(name), path |-> <<name>>]

\* topologicalSort: depth-first visit over the declared dependencies.
RECURSIVE visit(_, _, _), visitAll(_, _, _)
visit(name, serviceNames, st) ==
    IF st.failed THEN st
    ELSE IF name \in st.visiting THEN [st EXCEPT !.failed = TRUE]
    ELSE IF name \in st.visited THEN st
    ELSE LET deps == SelectSeq(services[name].dependencies,
                               LAMBDA d : d \in Range(serviceNames))
             after == visitAll(deps, serviceNames,
                               [st EXCEPT !.visiting = @ \cup {name}])
         IN  IF after.failed THEN after
             ELSE [after EXCEPT !.visiting = @ \ {name},
                                !.visited = @ \cup {name},
                                !.result = Append(@, name)]
visitAll(names, serviceNames, st) ==
    IF names = <<>> THEN st
    ELSE visitAll(Tail(names), serviceNames, visit(Head(names), serviceNames, st))

topologicalSort(serviceNames) ==
    visitAll(serviceNames, serviceNames,
             [visited |-> {}, visiting |-> {}, result |-> <<>>, failed |-> FALSE])

InitRegistry ==
    /\ services = [n \in Names |-> NoEntry]
    /\ initializationStack = <<>>
    /\ frames = <<>>
    /\ exc = NoExc
    /\ call = Idle
    /\ ret = NoRet
    /\ nextObj = 1
    /\ factoryCalls = [n \in Names |-> 0]
    /\ factoryReturns = [n \in Names |-> 0]
    /\ created = <<>>
    /\ overwritten = FALSE
    /\ regCount = 0
    /\ opCount = 0
    /\ teardown = NoTeardown
    /\ destroyed = <<>>

\* No get, initializeAll or destroy call is in progress.
Quiet == call.op = "none" /\ frames = <<>> /\ teardown.st \in {"idle", "resolved"}

RegisterKeepingInstance(name, src) ==
    /\ Quiet
    /\ services' = [services EXCEPT ![name] =
           [registered |-> TRUE, src |-> src, fixed |-> Undefined,
            lifecycle |-> IF @.instance > 0 THEN "initialized" ELSE "registered",
            instance |-> @.instance,
            dependencies |-> extractDependencies(src), error |-> FALSE,
            hook |-> @.hook, mark |-> nextObj]]
    /\ overwritten' = (overwritten \/ services[name].registered)
    /\ factoryCalls' = [factoryCalls EXCEPT ![name] = 0]
    /\ factoryReturns' = [factoryReturns EXCEPT ![name] = 0]
    /\ created' = SelectSeq(created, LAMBDA n : n # name)
    /\ regCount' = regCount + 1
    /\ ret' = NoRet
    /\ UNCHANGED <<initializationStack, frames, exc, call, nextObj, opCount, teardown,
                   destroyed>>

\* register(name, factory): a fresh entry, overwriting one of that name.
Register(name, src) ==
    /\ Quiet
    /\ services' = [services EXCEPT ![name] =
           [registered |-> TRUE, src |-> src, fixed |-> Undefined,
            lifecycle |-> "registered", instance |-> Undefined,
            dependencies |-> extractDependencies(src), error |-> FALSE,
            hook |-> FALSE, mark |-> nextObj]]
    /\ overwritten' = (overwritten \/ services[name].registered)
    /\ factoryCalls' = [factoryCalls EXCEPT ![name] = 0]
    /\ factoryReturns' = [factoryReturns EXCEPT ![name] = 0]
    /\ created' = SelectSeq(created, LAMBDA n : n # name)
    /\ regCount' = regCount + 1
    /\ ret' = NoRet
    /\ UNCHANGED <<initializationStack, frames, exc, call, nextObj, opCount, teardown,
                   destroyed>>

\* registerInstance(name, instance): an initialized entry whose factory
\* returns the instance.
RegisterInstance(name, kind) ==
    /\ Quiet
    /\ LET instance == IF kind = "falsy" THEN Falsy ELSE nextObj
       IN  services' = [services EXCEPT ![name] =
               [registered |-> TRUE, src |-> <<>>, fixed |-> instance,
                lifecycle |-> "initialized", instance |-> instance,
                dependencies |-> <<>>, error |-> FALSE,
                hook |-> kind = "destroyable", mark |-> nextObj]]
    /\ nextObj' = IF kind = "falsy" THEN nextObj ELSE nextObj + 1
    /\ overwritten' = (overwritten \/ services[name].registered)
    /\ factoryCalls' = [factoryCalls EXCEPT ![name] = 0]
    /\ factoryReturns' = [factoryReturns EXCEPT ![name] = 0]
    /\ created' = Append(SelectSeq(created, LAMBDA n : n # name), name)
    /\ regCount' = regCount + 1
    /\ ret' = NoRet
    /\ UNCHANGED <<initializationStack, frames, exc, call, opCount, teardown, destroyed>>

\* What the caller at the bottom of the call stack does with the outcome
\* of its get(name): a get call hands it on, initializeAll records it in
\* its results and goes to the next name.
Deliver(c, name, kind, value, err) ==
    IF c.op = "initializeAll"
    THEN [call |-> [c EXCEPT !.queue = Tail(@),
                             !.results = Append(@, [name |-> name, success |-> kind = "value",
                                                    error |-> err])],
          ret |-> ret]
    ELSE [call |-> Idle,
          ret |-> [op |-> "get", name |-> name, kind |-> kind, value |-> value,
                   err |-> err, results |-> <<>>]]

\* createInstance up to the call of the factory: lifecycle "initializing",
\* the name pushed on the stack, the factory entered.
EnterFactory(name) ==
    /\ services' = [services EXCEPT ![name].lifecycle = "initializing"]
    /\ initializationStack' = Append(initializationStack, name)
    /\ frames' = Append(frames, [name |-> name, pc |-> 1])
    /\ factoryCalls' = [factoryCalls EXCEPT ![name] = @ + 1]

\* A get(name) made from the bottom of the call stack (by the caller of the
\* registry, or by initializeAll for the next name of its order).
GetFromTop(c, name) ==
    /\ frames = <<>>
    /\ exc = NoExc
    /\ CASE GetKind(name) = "create" ->
              /\ EnterFactory(name)
              /\ call' = c
              /\ UNCHANGED ret
         [] GetKind(name) = "cached" ->
              /\ call' = Deliver(c, name, "value", services[name].instance, NoExc).call
              /\ ret' = Deliver(c, name, "value", services[name].instance, NoExc).ret
              /\ UNCHANGED <<services, initializationStack, frames, factoryCalls>>
         [] OTHER ->
              /\ call' = Deliver(c, name, "error", Undefined, GetError(name)).call
              /\ ret' = Deliver(c, name, "error", Undefined, GetError(name)).ret
              /\ UNCHANGED <<services, initializationStack, frames, factoryCalls>>
    /\ UNCHANGED <<exc, nextObj, factoryReturns, created, overwritten, regCount, teardown,
                   destroyed>>

\* get(name) called on the registry.
GetBegin(name) ==
    /\ Quiet
    /\ opCount' = opCount + 1
    /\ GetFromTop([op |-> "get", queue |-> <<>>, results |-> <<>>], name)

\* The factory on top of the call stack makes its next registry.get call.
FactoryStep ==
    /\ frames # <<>>
    /\ exc = NoExc
    /\ LET top == frames[Len(frames)]
           todo == Executed(services[top.name].src)
       IN  /\ top.pc <= Len(todo)
           /\ LET dep == todo[top.pc]
              IN  CASE GetKind(dep) = "create" ->
                        /\ EnterFactory(dep)
                        /\ UNCHANGED exc
                   [] GetKind(dep) = "cached" ->
                        /\ frames' = [frames EXCEPT ![Len(frames)].pc = @ + 1]
                        /\ UNCHANGED <<services, initializationStack, factoryCalls, exc>>
                   [] OTHER ->
                        /\ exc' = GetError(dep)
                        /\ UNCHANGED <<services, initializationStack, frames, factoryCalls>>
    /\ UNCHANGED <<call, ret, nextObj, factoryReturns, created, overwritten, regCount, opCount,
                   teardown, destroyed>>

RemoveNameSkipped(stack, name) == stack

RemoveName(stack, name) ==
    IF name \in Range(stack)
    THEN RemoveAt(stack, CHOOSE i \in 1..Len(stack) :
                             stack[i] = name /\ \A j \in 1..(i - 1) : stack[j] # name)
    ELSE stack

\* The factory on top of the call stack has made its calls and ends: it
\* returns a value (createInstance stores it, marks the entry initialized
\* and returns it), or it throws or returns a promise (catch: lifecycle
\* "error" and rethrow).  finally: the name leaves the stack.
FactoryReturn(outcome) ==
    /\ frames # <<>>
    /\ exc = NoExc
    /\ LET top == frames[Len(frames)]
           name == top.name
           entry == services[name]
           out == IF entry.fixed # Undefined
                  THEN (IF entry.fixed = Falsy THEN "falsy" ELSE "object")
                  ELSE outcome
           fresh == entry.fixed = Undefined /\ out \in {"object", "destroyable"}
           result == IF entry.fixed # Undefined THEN entry.fixed
                     ELSE IF fresh THEN nextObj ELSE Falsy
           hook == IF entry.fixed # Undefined THEN entry.hook ELSE out = "destroyable"
           rest == SubSeq(frames, 1, Len(frames) - 1)
       IN  /\ top.pc > Len(Executed(entry.src))
           /\ entry.fixed # Undefined => outcome = "object"
           /\ initializationStack' = RemoveName(initializationStack, name)
           /\ nextObj' = IF fresh THEN nextObj + 1 ELSE nextObj
           /\ IF out \in {"object", "destroyable", "falsy"}
              THEN /\ services' = [services EXCEPT ![name].instance = result,
                                                   ![name].hook = hook,
                                                   ![name].lifecycle = "initialized"]
                   /\ factoryReturns' = [factoryReturns EXCEPT ![name] = @ + 1]
                   /\ created' = Append(created, name)
                   /\ exc' = NoExc
                   /\ IF rest = <<>>
                      THEN /\ frames' = rest
                           /\ call' = Deliver(call, name, "value", result, NoExc).call
                           /\ ret' = Deliver(call, name, "value", result, NoExc).ret
                      ELSE /\ frames' = [rest EXCEPT ![Len(rest)].pc = @ + 1]
                           /\ UNCHANGED <<call, ret>>
              ELSE /\ services' = [services EXCEPT ![name].lifecycle = "error",
                                                   ![name].error = TRUE]
                   /\ UNCHANGED <<factoryReturns, created>>
                   /\ frames' = rest
                   /\ LET err == [kind |-> out, path |-> <<name>>]
                      IN  IF rest = <<>>
                          THEN /\ exc' = NoExc
                               /\ call' = Deliver(call, name, "error", Undefined, err).call
                               /\ ret' = Deliver(call, name, "error", Undefined, err).ret
                          ELSE /\ exc' = err
                               /\ UNCHANGED <<call, ret>>
    /\ UNCHANGED <<factoryCalls, overwritten, regCount, opCount, teardown, destroyed>>

\* An error thrown by a nested get reaches the createInstance on top of the
\* call stack: catch (lifecycle "error", rethrow) and finally (the name
\* leaves the stack).
Unwind ==
    /\ frames # <<>>
    /\ exc # NoExc
    /\ LET name == frames[Len(frames)].name
           rest == SubSeq(frames, 1, Len(frames) - 1)
       IN  /\ services' = [services EXCEPT ![name].lifecycle = "error", ![name].error = TRUE]
           /\ initializationStack' = RemoveName(initializationStack, name)
           /\ frames' = rest
           /\ IF rest = <<>>
              THEN /\ exc' = NoExc
                   /\ call' = Deliver(call, name, "error", Undefined, exc).call
                   /\ ret' = Deliver(call, name, "error", Undefined, exc).ret
              ELSE UNCHANGED <<exc, call, ret>>
    /\ UNCHANGED <<nextObj, factoryCalls, factoryReturns, created, overwritten, regCount,
                   opCount, teardown, destroyed>>

\* initializeAll(): list(), topologicalSort (whose cycle error leaves
\* initializeAll and rejects its promise), then the loop over the names.
InitializeAllBegin ==
    /\ Quiet
    /\ opCount' = opCount + 1
    /\ LET sorted == topologicalSort(list)
       IN  IF sorted.failed
           THEN /\ ret' = [op |-> "initializeAll", name |-> "", kind |-> "error",
                           value |-> Undefined,
                           err |-> [kind |-> "circular", path |-> <<>>], results |-> <<>>]
                /\ UNCHANGED call
           ELSE /\ call' = [op |-> "initializeAll", queue |-> sorted.result, results |-> <<>>]
                /\ ret' = NoRet
    /\ UNCHANGED <<services, initializationStack, frames, exc, nextObj, factoryCalls,
                   factoryReturns, created, overwritten, regCount, teardown, destroyed>>

\* The loop body of initializeAll: try { this.get(name) } catch.
InitializeAllNext ==
    /\ call.op = "initializeAll"
    /\ call.queue # <<>>
    /\ GetFromTop(call, Head(call.queue))
    /\ UNCHANGED opCount

\* initializeAll returns its results.
InitializeAllEnd ==
    /\ call.op = "initializeAll"
    /\ call.queue = <<>>
    /\ frames = <<>>
    /\ call' = Idle
    /\ ret' = [op |-> "initializeAll", name |-> "", kind |-> "results", value |-> Undefined,
               err |-> NoExc, results |-> call.results]
    /\ UNCHANGED <<services, initializationStack, frames, exc, nextObj, factoryCalls,
                   factoryReturns, created, overwritten, regCount, opCount, teardown,
                   destroyed>>

Reverse(s) == [i \in 1..Len(s) |-> s[Len(s) + 1 - i]]

\* has(name)
has(name) == services[name].registered

\* entry?.instance && typeof entry.instance.destroy === 'function'
hasDestroyHook(name) == services[name].instance > 0 /\ services[name].hook

hookFailureAborts(outcome) == outcome = "throws"

\* try { await entry.instance.destroy() } catch: a failing hook is logged
\* and the loop goes on; no outcome of a hook leaves destroy().
hookFailure(outcome) == FALSE

\* destroy() up to its loop: the names, sorted and reversed.
DestroyBegin ==
    /\ Quiet
    /\ opCount' = opCount + 1
    /\ teardown' = [st |-> "running", queue |-> Reverse(list), failed |-> 0]
    /\ destroyed' = <<>>
    /\ ret' = NoRet
    /\ UNCHANGED <<services, initializationStack, frames, exc, call, nextObj, factoryCalls,
                   factoryReturns, created, overwritten, regCount>>

\* The loop body of destroy() for the next name: an instance with a
\* destroy method has it invoked; the loop waits for a promise it returned.
DestroyNext(outcome) ==
    /\ teardown.st = "running"
    /\ teardown.queue # <<>>
    /\ LET name == Head(teardown.queue)
       IN  IF hasDestroyHook(name)
           THEN /\ destroyed' = Append(destroyed, name)
                /\ teardown' =
                       IF outcome = "pending" THEN [teardown EXCEPT !.st = "awaiting"]
                       ELSE IF hookFailure(outcome)
                            THEN [teardown EXCEPT !.st = "rejected", !.queue = <<>>]
                       ELSE [teardown EXCEPT !.queue = Tail(@),
                                             !.failed = IF outcome = "throws" THEN @ + 1
                                                        ELSE @]
           ELSE /\ outcome = "returns"
                /\ teardown' = [teardown EXCEPT !.queue = Tail(@)]
                /\ UNCHANGED destroyed
    /\ UNCHANGED <<services, initializationStack, frames, exc, call, ret, nextObj,
                   factoryCalls, factoryReturns, created, overwritten, regCount, opCount>>

\* The promise of the awaited destroy hook settles.
DestroySettle(rejects) ==
    /\ teardown.st = "awaiting"
    /\ teardown' =
           IF rejects /\ hookFailure("throws")
           THEN [teardown EXCEPT !.st = "rejected", !.queue = <<>>]
           ELSE [teardown EXCEPT !.st = "running", !.queue = Tail(@),
                                 !.failed = IF rejects THEN @ + 1 ELSE @]
    /\ UNCHANGED <<services, initializationStack, frames, exc, call, ret, nextObj,
                   factoryCalls, factoryReturns, created, overwritten, regCount, opCount,
                   destroyed>>

\* After the loop: services.clear(), the stack emptied, destroy resolves.
DestroyEnd ==
    /\ teardown.st = "running"
    /\ teardown.queue = <<>>
    /\ services' = [n \in Names |-> NoEntry]
    /\ initializationStack' = <<>>
    /\ teardown' = [teardown EXCEPT !.st = "resolved"]
    /\ ret' = [op |-> "destroy", name |-> "", kind |-> "resolved", value |-> Undefined,
               err |-> NoExc, results |-> <<>>]
    /\ UNCHANGED <<frames, exc, call, nextObj, factoryCalls, factoryReturns, created,
                   overwritten, regCount, opCount, destroyed>>

\* The names this specification registers; the third name stays unregistered.
RegisteredNames == {"a", "b"}

NextRegistry ==
    \/ \E name \in RegisteredNames, src \in Srcs :
           regCount < MaxRegs /\ Register(name, src) /\ UNCHANGED nonRegVars
    \/ \E name \in RegisteredNames, kind \in InstanceKinds \ {"destroyable"} :
           regCount < MaxRegs /\ RegisterInstance(name, kind) /\ UNCHANGED nonRegVars
    \/ \E name \in Names : opCount < MaxOps /\ GetBegin(name) /\ UNCHANGED nonRegVars
    \/ FactoryStep /\ UNCHANGED nonRegVars
    \/ \E outcome \in FactoryOutcomes \ {"destroyable"} :
           FactoryReturn(outcome) /\ UNCHANGED nonRegVars
    \/ Unwind /\ UNCHANGED nonRegVars
    \/ opCount < MaxOps /\ InitializeAllBegin /\ UNCHANGED nonRegVars
    \/ InitializeAllNext /\ UNCHANGED nonRegVars
    \/ InitializeAllEnd /\ UNCHANGED nonRegVars

\* The factories of the teardown runs: no registry call, or one executed
\* registry.get of a registered name.
TeardownSrcs == {<<>>} \cup {<<[kind |-> "call", name |-> n]>> : n \in RegisteredNames}

\* Services are registered and instantiated, with and without destroy
\* hooks, and the registry is destroyed; the caller of destroy() awaits it
\* before it uses the registry again.
NextTeardown ==
    \/ \E name \in RegisteredNames, src \in TeardownSrcs :
           regCount < MaxRegs /\ Register(name, src) /\ UNCHANGED nonRegVars
    \/ \E name \in RegisteredNames, kind \in InstanceKinds \ {"falsy"} :
           regCount < MaxRegs /\ RegisterInstance(name, kind) /\ UNCHANGED nonRegVars
    \/ \E name \in RegisteredNames :
           opCount < MaxOps /\ GetBegin(name) /\ UNCHANGED nonRegVars
    \/ FactoryStep /\ UNCHANGED nonRegVars
    \/ \E outcome \in {"object", "destroyable", "throw"} :
           FactoryReturn(outcome) /\ UNCHANGED nonRegVars
    \/ Unwind /\ UNCHANGED nonRegVars
    \/ opCount < MaxOps /\ InitializeAllBegin /\ UNCHANGED nonRegVars
    \/ InitializeAllNext /\ UNCHANGED nonRegVars
    \/ InitializeAllEnd /\ UNCHANGED nonRegVars
    \/ opCount < MaxOps /\ DestroyBegin /\ UNCHANGED nonRegVars
    \/ \E outcome \in HookOutcomes : DestroyNext(outcome) /\ UNCHANGED nonRegVars
    \/ \E rejects \in BOOLEAN : DestroySettle(rejects) /\ UNCHANGED nonRegVars
    \/ DestroyEnd /\ UNCHANGED nonRegVars

(***************************************************************************)
(* SubconsciousAgent (src/src/agents/governance-agent.ts, lines 552-707),  *)
(* with the performAnalysis of SummarizationAgent (lines 367-418).         *)
(*                                                                         *)
(* initialize, start and stop are awaited by their caller                  *)
(* (SubconsciousAgentManager, lines 721-747), so each is one step.  The    *)
(* handlers subscribed in setupEventSubscriptions run whenever the bus     *)
(* delivers a conversation event of any session.  performAnalysis reads    *)
(* the transcript when it is called and then awaits the model's answer:    *)
(* the pass is in flight until that answer settles.                        *)
(***************************************************************************)
OwnSession == "s1"
Sessions == {"s1", "s2"}

NoContext == [sessionId |-> "undefined"]

NoTime == 0 - 1

DefaultBatchSize == 50

\* batchSize 0 stands for a config without batchSize.
DefaultAgentConfig == [frequency |-> 1000, batchSize |-> 0, autoStart |-> TRUE]

AgentConfigs ==
    { DefaultAgentConfig,
      [frequency |-> 1000, batchSize |-> 2, autoStart |-> FALSE],
      [frequency |-> 500,  batchSize |-> 1, autoStart |-> TRUE] }

\* The clock advances by the largest step that divides every frequency.
Granularity ==
    CHOOSE g \in {c.frequency : c \in AgentConfigs} :
        \A c \in AgentConfigs : c.frequency % g = 0

\* The conversation.turn events the bus delivers: session and whether
\* data.content is non-empty.
TurnShapes ==
    { [sessionId |-> "s1", content |-> TRUE],
      [sessionId |-> "s1", content |-> FALSE],
      [sessionId |-> "s2", content |-> TRUE] }

\* const maxBufferSize = this.config.batchSize || 50
maxBufferSize(cfg) == IF cfg.batchSize = 0 THEN DefaultBatchSize ELSE cfg.batchSize

bufferConversationEventKeepOldest(buffer, event, cfg) ==
    LET pushed == Append(buffer, event)
    IN  IF Len(pushed) > maxBufferSize(cfg)
        THEN SubSeq(pushed, 1, maxBufferSize(cfg))
        ELSE pushed

bufferConversationEvent(buffer, event, cfg) ==
    LET pushed == Append(buffer, event)
    IN  IF Len(pushed) > maxBufferSize(cfg)
        THEN SliceLast(pushed, maxBufferSize(cfg))
        ELSE pushed

getConversationTranscriptUnfiltered(buffer) == [i \in 1..Len(buffer) |-> buffer[i].id]

\* The turns getConversationTranscript() puts in the transcript.
getConversationTranscript(buffer) ==
    LET kept == SelectSeq(buffer, LAMBDA e : e.content)
    IN  [i \in 1..Len(kept) |-> kept[i].id]

stopProcessingTimerKeepsInterval(timer) == timer

\* clearInterval(this.processingTimer); this.processingTimer = undefined
stopProcessingTimer(timer) == Undefined

\* setInterval(..., this.config.frequency): first due one period from now.
startProcessingTimer(cfg, t) == t + cfg.frequency

InFlightPasses == BagCardinality(passes)

InitAgent(cfg) ==
    /\ context = NoContext
    /\ status = "initializing"
    /\ agentConfig = cfg
    /\ processingTimer = Undefined
    /\ now = 0
    /\ conversationBuffer = <<>>
    /\ passes = EmptyBag
    /\ nextTurn = 1
    /\ analysed = {}
    /\ firstSinceClear = 1
    /\ ticks = 0
    /\ startedAt = NoTime
    /\ stoppedAt = NoTime

\* performAnalysis() up to its first await: nothing without a context or
\* with an empty transcript, otherwise the transcript is sent for analysis.
\* who: "analysis" for a pass of its own, "end" when handleConversationEnd
\* awaits it (that handler resumes even when the pass returned at once).
PerformAnalysis(who, sessionId) ==
    LET transcript == getConversationTranscript(conversationBuffer)
        sent == context # NoContext /\ transcript # <<>>
    IN  /\ analysed' = IF sent THEN analysed \cup Range(transcript) ELSE analysed
        /\ passes' = IF sent \/ who = "end"
                     THEN passes (+) SetToBag({[who |-> who, sessionId |-> sessionId]})
                     ELSE passes

\* The values of AgentStatus.
AgentStatuses == {"initializing", "running", "paused", "stopping", "stopped", "error"}

Last(s) == s[Len(s)]

\* The values BaseAgent.initialize, start and stop assign to status, in
\* order; initialize and stop yield between their two assignments.
initializeStatus == <<"initializing", "running">>
startStatus == <<"running">>
stopStatus == <<"stopping", "stopped">>

\* SubconsciousAgent.initialize(context), called once per agent.
Initialize ==
    /\ context = NoContext
    /\ context' = [sessionId |-> OwnSession]
    /\ status' = Last(initializeStatus)
    /\ IF agentConfig.autoStart
       THEN /\ processingTimer' = startProcessingTimer(agentConfig, now)
            /\ ticks' = 0
            /\ startedAt' = now
            /\ stoppedAt' = NoTime
       ELSE UNCHANGED <<processingTimer, ticks, startedAt, stoppedAt>>
    /\ UNCHANGED <<agentConfig, now, conversationBuffer, passes, nextTurn, analysed,
                   firstSinceClear>>

\* SubconsciousAgent.start(); it throws before arming when not initialized.
Start ==
    /\ context # NoContext
    /\ status' = Last(startStatus)
    /\ processingTimer' = startProcessingTimer(agentConfig, now)
    /\ ticks' = 0
    /\ startedAt' = now
    /\ stoppedAt' = NoTime
    /\ UNCHANGED <<context, agentConfig, now, conversationBuffer, passes, nextTurn,
                   analysed, firstSinceClear>>

\* SubconsciousAgent.stop(): the timer is cleared first, then the base
\* class sets the status (or throws when not initialized).
Stop ==
    /\ processingTimer' = stopProcessingTimer(processingTimer)
    /\ IF context # NoContext
       THEN /\ status' = Last(stopStatus)
            /\ stoppedAt' = IF stoppedAt = NoTime THEN now ELSE stoppedAt
       ELSE UNCHANGED <<status, stoppedAt>>
    /\ UNCHANGED <<context, agentConfig, now, conversationBuffer, passes, nextTurn,
                   analysed, firstSinceClear, ticks, startedAt>>

\* destroy(): await this.stop(), the stop of the subclass.
Destroy == Stop

\* The interval's callback: a scheduled tick begins.
TimerTick ==
    /\ processingTimer # Undefined
    /\ processingTimer <= now
    /\ processingTimer' = processingTimer + agentConfig.frequency
    /\ ticks' = ticks + 1
    /\ PerformAnalysis("analysis", context.sessionId)
    /\ UNCHANGED <<context, status, agentConfig, now, conversationBuffer, nextTurn,
                   firstSinceClear, startedAt, stoppedAt>>

\* Time passes; a due callback runs first.
Tock ==
    /\ ~(processingTimer # Undefined /\ processingTimer <= now)
    /\ now' = now + Granularity
    /\ UNCHANGED <<context, status, agentConfig, processingTimer, conversationBuffer,
                   passes, nextTurn, analysed, firstSinceClear, ticks, startedAt,
                   stoppedAt>>

\* The bus delivers a conversation.turn event to the subscribed handler.
TurnEvent(shape) ==
    /\ context # NoContext
    /\ LET event == [id |-> nextTurn, sessionId |-> shape.sessionId,
                     content |-> shape.content]
       IN  conversationBuffer' =
               bufferConversationEvent(conversationBuffer, event, agentConfig)
    /\ nextTurn' = nextTurn + 1
    /\ UNCHANGED <<context, status, agentConfig, processingTimer, now, passes, analysed,
                   firstSinceClear, ticks, startedAt, stoppedAt>>

\* The bus delivers a conversation.start event: handleConversationStart.
StartEvent(sessionId) ==
    /\ context # NoContext
    /\ conversationBuffer' = <<>>
    /\ firstSinceClear' = nextTurn
    /\ UNCHANGED <<context, status, agentConfig, processingTimer, now, passes, nextTurn,
                   analysed, ticks, startedAt, stoppedAt>>

\* The bus delivers a conversation.end event: handleConversationEnd up to
\* its await of performAnalysis().
EndEvent(sessionId) ==
    /\ context # NoContext
    /\ PerformAnalysis("end", sessionId)
    /\ UNCHANGED <<context, status, agentConfig, processingTimer, now,
                   conversationBuffer, nextTurn, firstSinceClear, ticks, startedAt,
                   stoppedAt>>

\* handleEvent with an analysis.request event of the agent's analysis type.
AnalysisRequest ==
    /\ context # NoContext
    /\ status # "initializing"
    /\ PerformAnalysis("analysis", context.sessionId)
    /\ UNCHANGED <<context, status, agentConfig, processingTimer, now,
                   conversationBuffer, nextTurn, firstSinceClear, ticks, startedAt,
                   stoppedAt>>

SettleDrains(p) ==
    /\ BagIn(p, passes)
    /\ passes' = passes (-) SetToBag({p})
    /\ conversationBuffer' = <<>>
    /\ firstSinceClear' = nextTurn
    /\ UNCHANGED <<context, status, agentConfig, processingTimer, now, nextTurn,
                   analysed, ticks, startedAt, stoppedAt>>

\* An awaited pass settles.  A pass of its own ends there (its result is
\* published or its error logged); handleConversationEnd resumes and
\* clears the buffer.
Settle(p) ==
    /\ BagIn(p, passes)
    /\ passes' = passes (-) SetToBag({p})
    /\ IF p.who = "end"
       THEN /\ conversationBuffer' = <<>>
            /\ firstSinceClear' = nextTurn
       ELSE UNCHANGED <<conversationBuffer, firstSinceClear>>
    /\ UNCHANGED <<context, status, agentConfig, processingTimer, now, nextTurn,
                   analysed, ticks, startedAt, stoppedAt>>

PassKinds == [who : {"analysis", "end"}, sessionId : Sessions]

NextAgent ==
    \/ Initialize /\ UNCHANGED nonAgentVars
    \/ Start /\ UNCHANGED nonAgentVars
    \/ Stop /\ UNCHANGED nonAgentVars
    \/ Destroy /\ UNCHANGED nonAgentVars
    \/ TimerTick /\ UNCHANGED nonAgentVars
    \/ (now + Granularity <= MaxTime) /\ Tock /\ UNCHANGED nonAgentVars
    \/ \E shape \in TurnShapes :
           (nextTurn <= MaxTurns) /\ TurnEvent(shape) /\ UNCHANGED nonAgentVars
    \/ \E s \in Sessions : StartEvent(s) /\ UNCHANGED nonAgentVars
    \/ \E s \in Sessions :
           (InFlightPasses < MaxInFlight) /\ EndEvent(s) /\ UNCHANGED nonAgentVars
    \/ (InFlightPasses < MaxInFlight) /\ AnalysisRequest /\ UNCHANGED nonAgentVars
    \/ \E p \in PassKinds : Settle(p) /\ UNCHANGED nonAgentVars

(***************************************************************************)
(* BaseAgent (src/unnamed/part_005, lines 436-571) as PrimaryAgent extends *)
(* it (src/unnamed/part_006, lines 45-325).                                *)
(*                                                                         *)
(* setupEventSubscriptions subscribes the agent's own handleEvent to       *)
(* conversation.turn on the bus of its context, and generateResponse       *)
(* publishes the finished answer as a conversation.turn event on that bus: *)
(* the bus hands the answer back to the agent.                             *)
(***************************************************************************)
\* The events handed to handleEvent: a conversation.turn of a human with
\* content, a conversation.turn of the assistant, and an event without data
\* (processEvent throws on event.data.role).
EventKinds == {"human", "assistant", "nodata"}

\* How the model's completion ends in generateResponse: a chunk with
\* finish_reason "stop", or an error from create() or from the stream.
Completions == {"stop", "error"}

InitPrimary ==
    /\ primary = [context |-> FALSE, subscribed |-> FALSE, status |-> "initializing",
                  eventsProcessed |-> 0, errorCount |-> 0]
    /\ handling = EmptyBag
    /\ tally = [handed |-> 0, humans |-> 0, resolved |-> 0, rejected |-> 0,
                refused |-> 0, fed |-> 0, initFailed |-> FALSE]

\* ensureInitialized() does not throw.
ensureInitialized(agent) == agent.context /\ agent.status # "initializing"

updateMetricsOnSuccessOnly(agent, isError) ==
    [agent EXCEPT !.eventsProcessed = IF isError THEN @ ELSE @ + 1,
                  !.errorCount = IF isError THEN @ + 1 ELSE @]

\* updateMetrics(startTime, isError)
updateMetrics(agent, isError) ==
    [agent EXCEPT !.eventsProcessed = @ + 1,
                  !.errorCount = IF isError THEN @ + 1 ELSE @]

\* initialize(context): the context and the status are set, then
\* setupEventSubscriptions runs; when it throws, initialize rejects there.
PrimaryInitialize(setupThrows) ==
    /\ ~primary.context
    /\ primary' = [primary EXCEPT !.context = TRUE,
                                  !.subscribed = ~setupThrows,
                                  !.status = IF setupThrows THEN initializeStatus[1]
                                             ELSE Last(initializeStatus)]
    /\ tally' = [tally EXCEPT !.initFailed = setupThrows]
    /\ UNCHANGED handling

\* start(): rejected by ensureInitialized, or status = "running".
PrimaryStart ==
    /\ primary' = IF ensureInitialized(primary)
                  THEN [primary EXCEPT !.status = Last(startStatus)]
                  ELSE primary
    /\ UNCHANGED <<handling, tally>>

\* stop(): rejected by ensureInitialized, or status = "stopping", "stopped".
PrimaryStop ==
    /\ primary' = IF ensureInitialized(primary)
                  THEN [primary EXCEPT !.status = Last(stopStatus)]
                  ELSE primary
    /\ UNCHANGED <<handling, tally>>

\* handleEvent(event) up to `await this.processEvent(event)`.  from:
\* "caller" for a call of the agent's user, "bus" for the call of the
\* handler subscribed in setupEventSubscriptions.
HandleEventBegin(from, kind) ==
    IF ensureInitialized(primary)
    THEN /\ handling' = handling (+) SetToBag({[from |-> from, kind |-> kind,
                                                stage |-> IF kind = "human" THEN "completion"
                                                          ELSE "processed"]})
         /\ UNCHANGED primary
    ELSE /\ UNCHANGED <<primary, handling>>

\* A call of handleEvent by the agent's user.
CallHandleEvent(kind) ==
    /\ HandleEventBegin("caller", kind)
    /\ tally' = [tally EXCEPT !.handed = @ + 1,
                              !.humans = IF kind = "human" THEN @ + 1 ELSE @,
                              !.refused = IF ensureInitialized(primary) THEN @ ELSE @ + 1]

\* generateResponse(): the completion ends.  On "stop" the answer is
\* published as a conversation.turn event, which the bus delivers to the
\* agent's own subscription: handleEvent is called with it.  On an error a
\* system.error event is published instead.
GenerateResponse(c, completion) ==
    /\ BagIn(c, handling)
    /\ c.stage = "completion"
    /\ LET done == [c EXCEPT !.stage = "processed"]
           fed == [from |-> "bus", kind |-> "assistant", stage |-> "processed"]
       IN  handling' =
               IF completion = "stop" /\ primary.subscribed /\ ensureInitialized(primary)
               THEN ((handling (-) SetToBag({c})) (+) SetToBag({done})) (+) SetToBag({fed})
               ELSE (handling (-) SetToBag({c})) (+) SetToBag({done})
    /\ UNCHANGED <<primary, tally>>

\* handleEvent resumes after processEvent: updateMetrics, and the error of
\* a failed processEvent is thrown on to the caller.
HandleEventSettle(c) ==
    /\ BagIn(c, handling)
    /\ c.stage = "processed"
    /\ handling' = handling (-) SetToBag({c})
    /\ primary' = updateMetrics(primary, c.kind = "nodata")
    /\ tally' = IF c.from = "caller"
                THEN IF c.kind = "nodata" THEN [tally EXCEPT !.rejected = @ + 1]
                     ELSE [tally EXCEPT !.resolved = @ + 1]
                ELSE [tally EXCEPT !.fed = @ + 1]

HandleEventCalls == [from : {"caller", "bus"}, kind : EventKinds,
                     stage : {"completion", "processed"}]

NextPrimary ==
    \/ \E setupThrows \in BOOLEAN : PrimaryInitialize(setupThrows) /\ UNCHANGED nonPrimVars
    \/ PrimaryStart /\ UNCHANGED nonPrimVars
    \/ PrimaryStop /\ UNCHANGED nonPrimVars
    \/ \E kind \in EventKinds :
           tally.handed < MaxHanded /\ CallHandleEvent(kind) /\ UNCHANGED nonPrimVars
    \/ \E c \in HandleEventCalls, completion \in Completions :
           GenerateResponse(c, completion) /\ UNCHANGED nonPrimVars
    \/ \E c \in HandleEventCalls : HandleEventSettle(c) /\ UNCHANGED nonPrimVars

(***************************************************************************)
(* SummarizationAgent (src/src/agents/governance-agent.ts, lines 287-487), *)
(* a SubconsciousAgent: the passes of the agent above, with what           *)
(* performAnalysis does when the model's completion arrives.               *)
(***************************************************************************)
Topics == {"billing", "refund", "account"}

\* The topic lists a completion returns (an absent list reads as []).
TopicLists == {<<>>, <<"billing", "refund">>, <<"refund", "account">>}

\* A completion's JSON: summary "" stands for an absent or empty summary;
\* hasKeyPoints tells whether the keyPoints field is there.
Results ==
    {[summary |-> "refund asked", topics |-> <<"billing", "refund">>,
      hasKeyPoints |-> TRUE, keyPoints |-> <<"k1">>],
     [summary |-> "refund granted", topics |-> <<"refund", "account">>,
      hasKeyPoints |-> TRUE, keyPoints |-> <<"k2">>],
     [summary |-> "", topics |-> <<>>, hasKeyPoints |-> FALSE, keyPoints |-> <<>>]}

\* How the awaited completion ends for a pass that made the call: create()
\* throws (or the content does not parse), the completion has no content,
\* or it carries a result.  "none": the pass had returned without a call.
NoResult == [summary |-> "", topics |-> <<>>, hasKeyPoints |-> FALSE, keyPoints |-> <<>>]

Answers ==
    [kind : {"none", "throws", "nocontent"}, result : {NoResult}]
        \cup [kind : {"result"}, result : Results]

InitialSummary == [summary |-> "", topics |-> <<>>, keyPoints |-> <<>>]

NoEffects ==
    [step |-> "none", who |-> "none", passes |-> 0, called |-> FALSE, published |-> <<>>,
     escaped |-> FALSE]

InitAnalysis ==
    /\ currentSummary = InitialSummary
    /\ llm = EmptyBag
    /\ malformed = {}
    /\ effects = NoEffects
    /\ firstFailure = 0
    /\ topicsSeen = {}

\* [...new Set(list)]: the first occurrence of every element, in order.
RECURSIVE Dedupe(_)
Dedupe(items) ==
    IF items = <<>> THEN <<>>
    ELSE LET rest == Dedupe(SubSeq(items, 1, Len(items) - 1))
             last == items[Len(items)]
         IN  IF last \in Range(rest) THEN rest ELSE Append(rest, last)

mergeTopicsConcat(existingTopics, newTopics) == existingTopics \o newTopics

\* mergeTopics(existingTopics, newTopics)
mergeTopics(existingTopics, newTopics) == Dedupe(existingTopics \o newTopics)

\* What mergeTopics gives for the lists of at most two topics.
mergeTopicsLaws ==
    LET Lists == {<<>>} \cup {<<a>> : a \in Topics} \cup {<<a, b>> : a \in Topics, b \in Topics}
    IN  \A x \in Lists, y \in Lists :
            /\ Range(mergeTopics(x, y)) = Range(x) \cup Range(y)
            /\ Range(mergeTopics(x, y)) = Range(mergeTopics(y, x))
            /\ mergeTopics(mergeTopics(x, y), y) = mergeTopics(x, y)
            /\ Range(mergeTopics(x, x)) = Range(x)
            /\ \A z \in Lists :
                   Range(mergeTopics(mergeTopics(x, y), z))
                       = Range(mergeTopics(x, mergeTopics(y, z)))

\* The CallSummary performAnalysis builds from the parsed result and hands
\* to updateSummary, which spreads it over the current one.
updateSummary(current, result) ==
    [summary |-> IF result.summary # "" THEN result.summary ELSE current.summary,
     topics |-> mergeTopics(current.topics, result.topics),
     keyPoints |-> IF result.hasKeyPoints THEN result.keyPoints ELSE current.keyPoints]

\* getConversationTranscript() throws on a turn whose data cannot be read
\* (data null, or a role that is not a string).
transcriptThrows(buffer) == \E i \in 1..Len(buffer) : buffer[i].id \in malformed

escapesTimerCallbackUncaught(throws) == throws

\* The interval's callback awaits performAnalysis inside try/catch: the
\* error is logged and never leaves the callback.
escapesTimerCallback(throws) == FALSE

cleanupEventSubscriptionsUnsubscribes(subscribed) == FALSE

\* BaseAgent.cleanupEventSubscriptions(), which stop() awaits: the default
\* implementation, not overridden, leaves the subscriptions in place.
cleanupEventSubscriptions(subscribed) == subscribed

\* The handlers of setupEventSubscriptions are subscribed.
handlersSubscribed ==
    IF status = "stopped" THEN cleanupEventSubscriptions(context # NoContext)
    ELSE context # NoContext

\* A lifecycle call of the agent, or time passing.
Lifecycle(A) ==
    /\ A
    /\ effects' = NoEffects
    /\ UNCHANGED <<currentSummary, llm, malformed, topicsSeen>>

AnalysisStart == Lifecycle(Start) /\ firstFailure' = 0

\* The bus delivers a conversation.turn event of the agent's session.
AnalysisTurn(shape, readable) ==
    /\ TurnEvent(shape)
    /\ malformed' = IF readable THEN malformed ELSE malformed \cup {nextTurn}
    /\ effects' = NoEffects
    /\ UNCHANGED <<currentSummary, llm, firstFailure, topicsSeen>>

\* The interval's callback runs performAnalysis up to its first await.
AnalysisTick ==
    /\ processingTimer # Undefined
    /\ processingTimer <= now
    /\ IF context # NoContext /\ transcriptThrows(conversationBuffer)
       THEN /\ processingTimer' = processingTimer + agentConfig.frequency
            /\ ticks' = ticks + 1
            /\ effects' = [step |-> "tick", who |-> "analysis", passes |-> 1, called |-> FALSE,
                           published |-> <<>>, escaped |-> escapesTimerCallback(TRUE)]
            /\ firstFailure' = IF firstFailure = 0 THEN ticks + 1 ELSE firstFailure
            /\ UNCHANGED <<context, status, agentConfig, now, conversationBuffer, passes,
                           nextTurn, analysed, firstSinceClear, startedAt, stoppedAt,
                           llm>>
       ELSE /\ TimerTick
            /\ llm' = IF passes' # passes
                      THEN llm (+) SetToBag({[who |-> "analysis",
                                              sessionId |-> context.sessionId]})
                      ELSE llm
            /\ effects' = [step |-> "tick", who |-> "analysis", passes |-> 1, called |-> passes' # passes,
                           published |-> <<>>, escaped |-> FALSE]
            /\ UNCHANGED firstFailure
    /\ UNCHANGED <<currentSummary, malformed, topicsSeen>>

\* The bus delivers a conversation.end event.  A subscribed handler calls
\* handleConversationEnd and drops its promise; when the transcript cannot
\* be built the promise rejects with nobody to catch it.
AnalysisEndEvent(sessionId) ==
    /\ context # NoContext
    /\ IF ~handlersSubscribed
       THEN /\ effects' = [NoEffects EXCEPT !.step = "end"]
            /\ UNCHANGED <<agentVars, llm>>
       ELSE IF transcriptThrows(conversationBuffer)
       THEN /\ effects' = [step |-> "end", who |-> "end", passes |-> 1, called |-> FALSE,
                           published |-> <<>>, escaped |-> TRUE]
            /\ UNCHANGED <<agentVars, llm>>
       ELSE /\ EndEvent(sessionId)
            /\ LET called == getConversationTranscript(conversationBuffer) # <<>>
               IN  /\ llm' = IF called
                             THEN llm (+) SetToBag({[who |-> "end", sessionId |-> sessionId]})
                             ELSE llm
                   /\ effects' = [step |-> "end", who |-> "end", passes |-> 1, called |-> called,
                                  published |-> <<>>, escaped |-> FALSE]
    /\ UNCHANGED <<currentSummary, malformed, firstFailure, topicsSeen>>

\* performAnalysis resumes with the completion: a result is merged into
\* the current summary and published as one analysis event; an error is
\* caught and logged; a completion without content is only logged.
AnalysisSettle(p, answer) ==
    /\ Settle(p)
    /\ IF answer.kind = "none"
       THEN /\ CopiesIn(p, passes) > CopiesIn(p, llm)
            /\ effects' = [NoEffects EXCEPT !.step = "settle", !.who = p.who]
            /\ UNCHANGED <<currentSummary, llm, topicsSeen>>
       ELSE /\ BagIn(p, llm)
            /\ llm' = llm (-) SetToBag({p})
            /\ IF answer.kind = "result"
               THEN /\ currentSummary' = updateSummary(currentSummary, answer.result)
                    /\ topicsSeen' = topicsSeen \cup Range(answer.result.topics)
                    /\ effects' = [NoEffects EXCEPT !.step = "settle", !.who = p.who,
                                       !.published = <<currentSummary'>>]
               ELSE /\ effects' = [NoEffects EXCEPT !.step = "settle", !.who = p.who]
                    /\ UNCHANGED <<currentSummary, topicsSeen>>
    /\ UNCHANGED <<malformed, firstFailure>>

AnalysisSession == {OwnSession}

NextAnalysis ==
    \/ Lifecycle(Initialize) /\ UNCHANGED firstFailure /\ UNCHANGED nonAnalysisVars
    \/ AnalysisStart /\ UNCHANGED nonAnalysisVars
    \/ Lifecycle(Stop) /\ UNCHANGED firstFailure /\ UNCHANGED nonAnalysisVars
    \/ (now + Granularity <= MaxTime) /\ Lifecycle(Tock) /\ UNCHANGED firstFailure
           /\ UNCHANGED nonAnalysisVars
    \/ AnalysisTick /\ UNCHANGED nonAnalysisVars
    \/ \E shape \in {sh \in TurnShapes : sh.sessionId \in AnalysisSession},
          readable \in BOOLEAN :
           (nextTurn <= MaxSummarized) /\ (readable \/ shape.content)
           /\ AnalysisTurn(shape, readable) /\ UNCHANGED nonAnalysisVars
    \/ \E s \in AnalysisSession :
           Lifecycle(StartEvent(s)) /\ UNCHANGED firstFailure /\ UNCHANGED nonAnalysisVars
    \/ \E s \in AnalysisSession :
           (InFlightPasses < MaxInFlight) /\ AnalysisEndEvent(s)
           /\ UNCHANGED nonAnalysisVars
    \/ \E p \in PassKinds, answer \in Answers :
           AnalysisSettle(p, answer) /\ UNCHANGED nonAnalysisVars

(***************************************************************************)
(* The foreground publishing on the bus the agent has subscribed to        *)
(* (governance-agent.ts, lines 581-596, on the publish of part_005).       *)
(***************************************************************************)
\* The arrow functions setupEventSubscriptions hands to subscribe.
SubconsciousHandler == "subconscious"

ForegroundTypes == {TypeTurn, TypeEnd}

\* The handler of another subscriber of these events.
OtherHandlers == {"h1"}

\* The events of the foreground that publish accepts.
ForegroundShapes == {shape \in EventShapes : validateEvent(TypeTurn, shape)}

subscriptionHandlerReturnsPromise(t) == IF t = TypeEnd THEN "pending" ELSE "ok"

\* What the subscribed arrow function hands back to safeCallHandler: its
\* body is a block without return, so undefined, whatever the call inside
\* it returned.
subscriptionHandler(t) == "ok"

InitForeground ==
    /\ listeners = [t \in Types \cup {TypeEnd} |->
                       IF t = TypeError THEN <<[h |-> ErrorListener, seq |-> 0]>> ELSE <<>>]
    /\ patternSubscriptions = <<>>
    /\ eventHistory = <<>>
    /\ stats = [totalEvents |-> 0, errorCount |-> 0]
    /\ config \in BusConfigs
    /\ pub = [p \in Slots |-> IdlePub]
    /\ nextId = 1
    /\ subSeq = 0
    /\ raisedErrors = 0
    /\ accepted = <<>>

\* initialize(context): BaseAgent.initialize runs setupEventSubscriptions,
\* which subscribes to conversation.turn, .start and .end in this order.
ForegroundInitialize ==
    /\ Lifecycle(Initialize)
    /\ subSeq' = subSeq + 3
    /\ listeners' =
           [t \in DOMAIN listeners |->
               IF t = TypeTurn
               THEN Append(listeners[t], [h |-> SubconsciousHandler, seq |-> subSeq + 1])
               ELSE IF t = TypeStart
               THEN Append(listeners[t], [h |-> SubconsciousHandler, seq |-> subSeq + 2])
               ELSE IF t = TypeEnd
               THEN Append(listeners[t], [h |-> SubconsciousHandler, seq |-> subSeq + 3])
               ELSE listeners[t]]
    /\ UNCHANGED <<patternSubscriptions, eventHistory, stats, config, pub, nextId,
                   raisedErrors, accepted, firstFailure>>

\* The foreground publishes a conversation.turn or conversation.end event:
\* publish up to its first await, the agent's handler running inside it;
\* others: what the handlers of other subscribers do.
ForegroundPublish(p, t, shape, content, others) ==
    LET ls == ListenersOf(t)
        outs == [i \in 1..Len(ls) |->
                    IF ls[i].h = SubconsciousHandler THEN subscriptionHandler(t)
                    ELSE others[i]]
    IN  /\ PublishStart(p, t, shape, outs)
        /\ IF \E i \in 1..Len(ls) : ls[i].h = SubconsciousHandler
           THEN IF t = TypeTurn
                THEN AnalysisTurn([sessionId |-> OwnSession, content |-> content],
                                  shape.data = "object")
                ELSE AnalysisEndEvent(OwnSession)
           ELSE UNCHANGED <<agentVars, sumVars>>

NextForeground ==
    \/ ForegroundInitialize /\ UNCHANGED nonForegroundVars
    \/ \E t \in ForegroundTypes, h \in OtherHandlers :
           (\A i \in 1..Len(ListenersOf(t)) : ListenersOf(t)[i].h # h) /\ Subscribe(t, h)
           /\ UNCHANGED <<agentVars, sumVars>> /\ UNCHANGED nonForegroundVars
    \/ \E p \in Slots, t \in ForegroundTypes, shape \in ForegroundShapes,
          content \in BOOLEAN :
           \E others \in [1..Len(ListenersOf(t)) -> CallOutcomes] :
               /\ nextId <= MaxForeground
               /\ \A i \in DOMAIN others :
                      ListenersOf(t)[i].h = SubconsciousHandler => others[i] = "ok"
               /\ t = TypeTurn =>
                      (nextTurn <= MaxSummarized /\ (content \/ shape.data = "object"))
               /\ t = TypeEnd =>
                      (InFlightPasses < MaxInFlight /\ content /\ shape.data = "object")
               /\ ForegroundPublish(p, t, shape, content, others)
               /\ UNCHANGED nonForegroundVars
    \/ \E p \in Slots :
           \E outs \in [1..Len(PatternTargets(pub[p].event.type)) -> CallOutcomes] :
               PublishPatterns(p, outs) /\ UNCHANGED <<agentVars, sumVars>>
               /\ UNCHANGED nonForegroundVars
    \/ \E p \in Slots :
           PublishFinish(p) /\ UNCHANGED <<agentVars, sumVars>>
           /\ UNCHANGED nonForegroundVars
    \/ \E p \in Slots, i \in 1..MaxSubs + 1, rejects \in BOOLEAN :
           SettleHandler(p, i, rejects) /\ UNCHANGED <<agentVars, sumVars>>
           /\ UNCHANGED nonForegroundVars
    \/ \E p \in PassKinds, answer \in Answers :
           AnalysisSettle(p, answer) /\ UNCHANGED busVars /\ UNCHANGED nonForegroundVars

(***************************************************************************)
(* SubconsciousAgent: its interval and its metrics (governance-agent.ts,   *)
(* lines 563-579 and 643-667; BaseAgent in part_005, lines 436-571).  A    *)
(* pass is seen here by how it ends only.                                  *)
(***************************************************************************)
\* How performAnalysis ends: it returns (with a result or without a call),
\* it catches the error of the completion itself and returns, or it throws
\* (the transcript cannot be built).
PassOutcomes == {"ok", "caught", "throws"}

\* The handles setInterval can return.
Handles == 1..(MaxStarts + 1)

InitScheduler ==
    /\ subconscious = [context |-> FALSE, status |-> "initializing",
                       processingTimer |-> Undefined,
                       metrics |-> [eventsProcessed |-> 0, errorCount |-> 0]]
    /\ intervals = {}
    /\ ledger = [last |-> "none", starts |-> 0, fired |-> 0, failed |-> 0, requests |-> 0]

\* setInterval returns a handle no live interval has.
FreshHandle == CHOOSE h \in Handles : h \notin intervals /\ \A g \in Handles : g < h => g \in intervals

armedWithoutClear(timer, live, h) == live \cup {h}

\* startProcessingTimer(): clearInterval of the timer it holds, if any,
\* then setInterval; the intervals alive afterwards.
armed(timer, live, h) == (IF timer # Undefined THEN live \ {timer} ELSE live) \cup {h}

\* stopProcessingTimer(): the intervals alive afterwards.
disarmed(timer, live) == IF timer # Undefined THEN live \ {timer} ELSE live

\* start(): BaseAgent.start (throws when not initialized), then
\* startProcessingTimer.
SchedulerStarted(agent) ==
    [agent EXCEPT !.status = Last(startStatus), !.processingTimer = FreshHandle]

\* registerAgent: initialize(context); BaseAgent.initialize, then start()
\* unless autoStart is false.
SchedulerInitialize(autoStart) ==
    /\ ~subconscious.context
    /\ LET initialized == [subconscious EXCEPT !.context = TRUE,
                                               !.status = Last(initializeStatus)]
       IN  IF autoStart
           THEN /\ subconscious' = SchedulerStarted(initialized)
                /\ intervals' = armed(subconscious.processingTimer, intervals, FreshHandle)
                /\ ledger' = [ledger EXCEPT !.last = "initialize", !.starts = 1]
           ELSE /\ subconscious' = initialized
                /\ ledger' = [ledger EXCEPT !.last = "initialize"]
                /\ UNCHANGED intervals

\* start(), as startAll calls it.
SchedulerStart ==
    IF ensureInitialized(subconscious)
    THEN /\ subconscious' = SchedulerStarted(subconscious)
         /\ intervals' = armed(subconscious.processingTimer, intervals, FreshHandle)
         /\ ledger' = [ledger EXCEPT !.last = "start", !.starts = @ + 1]
    ELSE /\ ledger' = [ledger EXCEPT !.last = "start"]
         /\ UNCHANGED <<subconscious, intervals>>

\* stop(), as stopAll calls it: stopProcessingTimer, then BaseAgent.stop
\* (which throws when not initialized).
SchedulerStop ==
    /\ intervals' = disarmed(subconscious.processingTimer, intervals)
    /\ subconscious' =
           [subconscious EXCEPT !.processingTimer = Undefined,
                                !.status = IF ensureInitialized(subconscious)
                                           THEN Last(stopStatus) ELSE @]
    /\ ledger' = [ledger EXCEPT !.last = "stop", !.starts = 0]

\* The callback of a live interval runs: try { await performAnalysis() }
\* catch { log }.
SchedulerTick(h, outcome) ==
    /\ h \in intervals
    /\ ledger' = [ledger EXCEPT !.last = "tick", !.fired = @ + 1,
                                !.failed = IF outcome = "ok" THEN @ ELSE @ + 1]
    /\ UNCHANGED <<subconscious, intervals>>

\* handleEvent with an analysis.request event of the agent's analysis type:
\* processEvent awaits performAnalysis, and handleEvent updates the metrics.
SchedulerRequest(outcome) ==
    /\ ledger' = [ledger EXCEPT !.last = "request", !.requests = @ + 1]
    /\ subconscious' =
           IF ensureInitialized(subconscious)
           THEN [subconscious EXCEPT !.metrics = updateMetrics(@, outcome = "throws")]
           ELSE subconscious
    /\ UNCHANGED intervals

NextScheduler ==
    \/ \E autoStart \in BOOLEAN : SchedulerInitialize(autoStart) /\ UNCHANGED nonSchedulerVars
    \/ (ledger.starts < MaxStarts) /\ SchedulerStart /\ UNCHANGED nonSchedulerVars
    \/ SchedulerStop /\ UNCHANGED nonSchedulerVars
    \/ \E h \in Handles, outcome \in PassOutcomes :
           (ledger.fired < MaxFires) /\ SchedulerTick(h, outcome)
           /\ UNCHANGED nonSchedulerVars
    \/ \E outcome \in PassOutcomes :
           (ledger.requests < MaxRequests) /\ SchedulerRequest(outcome)
           /\ UNCHANGED nonSchedulerVars

(***************************************************************************)
(* The ids of published events: createEvent (part_005, lines 322-338),     *)
(* BaseAgent.publishEvent (part_005, lines 557-570) and                    *)
(* SubconsciousAgent.publishAnalysisResult (governance-agent.ts, 677-694). *)
(***************************************************************************)
AgentIds == {"summarization", "governance"}

InitIds ==
    /\ wallClock = 0
    /\ uuids = 0
    /\ issued = <<>>

\* uuidv4(): a value never drawn before.
uuidv4 == <<"uuid", uuids + 1>>

\* `${this.id}-${Date.now()}`
agentEventId(agentId, t) == <<agentId, t>>

\* bus.publish(createEvent(type, sessionId, agentId, data))
PublishCreated(agentId) ==
    /\ issued' = Append(issued, uuidv4)
    /\ uuids' = uuids + 1
    /\ UNCHANGED wallClock

\* BaseAgent.publishEvent(type, data)
PublishEvent(agentId) ==
    /\ issued' = Append(issued, agentEventId(agentId, wallClock))
    /\ UNCHANGED <<wallClock, uuids>>

\* SubconsciousAgent.publishAnalysisResult(result, confidence)
PublishAnalysisResult(agentId) ==
    /\ issued' = Append(issued, agentEventId(agentId, wallClock))
    /\ UNCHANGED <<wallClock, uuids>>

\* A millisecond passes.
ClockTick ==
    /\ wallClock' = wallClock + 1
    /\ UNCHANGED <<uuids, issued>>

NextIds ==
    \/ \E a \in AgentIds :
           (Len(issued) < MaxIssued) /\ PublishCreated(a) /\ UNCHANGED nonIdVars
    \/ \E a \in AgentIds :
           (Len(issued) < MaxIssued) /\ PublishEvent(a) /\ UNCHANGED nonIdVars
    \/ \E a \in AgentIds :
           (Len(issued) < MaxIssued) /\ PublishAnalysisResult(a) /\ UNCHANGED nonIdVars
    \/ (wallClock < MaxClock) /\ ClockTick /\ UNCHANGED nonIdVars

(***************************************************************************)
(* DefaultPluginRegistry: the tool plugins (part_005, lines 610-680).      *)
(* toolPlugins is a Map keyed by the plugin's name; its iteration order is *)
(* the order in which the keys were first inserted, and set() on a key     *)
(* that exists replaces the value at the key's place.                      *)
(***************************************************************************)
PluginNames == {"crm", "search"}
ToolNames == {"lookup", "notify"}

InitPlugins ==
    /\ toolPlugins = <<>>
    /\ registrations = 0
    /\ dispatch = [tool |-> "none", executed |-> {}, error |-> FALSE]

\* this.toolPlugins.set(plugin.name, plugin)
MapSet(map, plugin) ==
    IF \E i \in 1..Len(map) : map[i].name = plugin.name
    THEN [i \in 1..Len(map) |-> IF map[i].name = plugin.name THEN plugin ELSE map[i]]
    ELSE Append(map, plugin)

\* registerToolPlugin(plugin): a re-registration is logged and carried out.
registerToolPlugin(name, tools) ==
    /\ registrations' = registrations + 1
    /\ toolPlugins' = MapSet(toolPlugins, [name |-> name, tools |-> tools,
                                           registeredAt |-> registrations + 1])
    /\ UNCHANGED dispatch

\* The plugins executeTool(name) calls executetool on: the first plugin, in
\* the Map's iteration order, that has a tool of that name.
Providers(name) == {i \in 1..Len(toolPlugins) : name \in toolPlugins[i].tools}

Dispatched(name) ==
    IF Providers(name) = {} THEN {}
    ELSE {toolPlugins[CHOOSE i \in Providers(name) :
                          \A j \in Providers(name) : i <= j].registeredAt}

\* executeTool(name, args, context)
executeTool(name) ==
    /\ dispatch' = [tool |-> name, executed |-> Dispatched(name),
                    error |-> Providers(name) = {}]
    /\ UNCHANGED <<toolPlugins, registrations>>

NextPlugins ==
    \/ \E name \in PluginNames, tools \in SUBSET ToolNames :
           (registrations < MaxPlugins) /\ registerToolPlugin(name, tools)
           /\ UNCHANGED nonPluginVars
    \/ \E name \in ToolNames : executeTool(name) /\ UNCHANGED nonPluginVars

(***************************************************************************)
(* PrimaryAgent: the streamed completion and abort() (part_006, lines      *)
(* 124-227 and 318-326).  generateResponse iterates over the stream it     *)
(* created; abort() aborts the controller of this.stream and forgets the   *)
(* stream.  The branch of finish_reason "tool_calls" is left out.          *)
(***************************************************************************)
\* How the iteration over an aborted stream ends: the iterator returns, or
\* it rejects with the abort error.
AbortEndings == {"returns", "rejects"}

NoCompletion == [id |-> 0, state |-> "idle", aborted |-> FALSE, text |-> 0]

InitStream ==
    /\ stream = Undefined
    /\ conversationHistory = <<[role |-> "system", content |-> 0, completion |-> 0]>>
    /\ generating = NoCompletion
    /\ emissions = <<>>
    /\ aborts = <<>>

\* publishEvent(type, data) of generateResponse.
Emission(type, isComplete) ==
    [type |-> type, completion |-> generating.id, isComplete |-> isComplete,
     afterAbort |-> generating.aborted]

\* handleConversationTurn of a human turn with content: the user's message is
\* pushed and generateResponse calls openai.chat.completions.create.
StreamTurn ==
    /\ generating.state = "idle"
    /\ conversationHistory' =
           Append(conversationHistory,
                  [role |-> "user", content |-> 1, completion |-> generating.id + 1])
    /\ generating' = [id |-> generating.id + 1, state |-> "creating",
                      aborted |-> FALSE, text |-> 0]
    /\ UNCHANGED <<stream, emissions, aborts>>

\* create() resolves: this.stream = the stream, and the loop starts.
StreamCreated ==
    /\ generating.state = "creating"
    /\ stream' = generating.id
    /\ generating' = [generating EXCEPT !.state = "streaming"]
    /\ UNCHANGED <<conversationHistory, emissions, aborts>>

\* A chunk with delta.content: the text grows and a text chunk is published.
StreamChunk ==
    /\ generating.state = "streaming"
    /\ ~generating.aborted
    /\ generating' = [generating EXCEPT !.text = @ + 1]
    /\ emissions' = Append(emissions, Emission("conversation.text-chunk", FALSE))
    /\ UNCHANGED <<stream, conversationHistory, aborts>>

\* The chunk with finish_reason "stop": the assistant's message is pushed,
\* the closing text chunk and the turn are published; the stream ends and
\* the finally block forgets it.
StreamFinish ==
    /\ generating.state = "streaming"
    /\ ~generating.aborted
    /\ conversationHistory' =
           Append(conversationHistory,
                  [role |-> "assistant", content |-> generating.text,
                   completion |-> generating.id])
    /\ emissions' = emissions \o <<Emission("conversation.text-chunk", TRUE),
                                   Emission("conversation.turn", TRUE)>>
    /\ generating' = [generating EXCEPT !.state = "idle"]
    /\ stream' = Undefined
    /\ UNCHANGED aborts

\* abort(): the controller of this.stream is aborted unless it is already,
\* and this.stream is forgotten.
abort ==
    /\ generating' = IF stream # Undefined /\ ~generating.aborted
                     THEN [generating EXCEPT !.aborted = TRUE]
                     ELSE generating
    /\ aborts' = IF stream # Undefined /\ ~generating.aborted
                 THEN Append(aborts, [completion |-> generating.id,
                                      chunks |-> generating.text])
                 ELSE aborts
    /\ stream' = Undefined
    /\ UNCHANGED <<conversationHistory, emissions>>

\* The iteration over the aborted stream ends; a rejection is caught and
\* published as system.error.  The finally block forgets the stream.
StreamAborted(ending) ==
    /\ generating.state = "streaming"
    /\ generating.aborted
    /\ emissions' = IF ending = "rejects"
                    THEN Append(emissions, Emission("system.error", FALSE))
                    ELSE emissions
    /\ generating' = [generating EXCEPT !.state = "idle"]
    /\ stream' = Undefined
    /\ UNCHANGED <<conversationHistory, aborts>>

NextStream ==
    \/ (generating.id < MaxCompletions) /\ StreamTurn /\ UNCHANGED nonStreamVars
    \/ StreamCreated /\ UNCHANGED nonStreamVars
    \/ (generating.text < MaxChunks) /\ StreamChunk /\ UNCHANGED nonStreamVars
    \/ StreamFinish /\ UNCHANGED nonStreamVars
    \/ abort /\ UNCHANGED nonStreamVars
    \/ \E ending \in AbortEndings : StreamAborted(ending) /\ UNCHANGED nonStreamVars

(***************************************************************************)
(* Specifications, one per component.                                      *)
(***************************************************************************)
InitSpecBus ==
    /\ \E cfg \in BusConfigs : InitBus(cfg)
    /\ InitRegistry
    /\ InitAgent(DefaultAgentConfig)
    /\ InitPrimary
    /\ InitAnalysis
    /\ InitScheduler
    /\ InitIds
    /\ InitPlugins
    /\ InitStream

SpecBus == InitSpecBus /\ [][NextBus]_vars

InitSpecHistory ==
    /\ \E cfg \in HistoryConfigs : InitBus(cfg)
    /\ InitRegistry
    /\ InitAgent(DefaultAgentConfig)
    /\ InitPrimary
    /\ InitAnalysis
    /\ InitScheduler
    /\ InitIds
    /\ InitPlugins
    /\ InitStream

SpecHistory == InitSpecHistory /\ [][NextHistory]_vars

InitSpecRegistry ==
    /\ InitBus(DefaultBusConfig)
    /\ InitRegistry
    /\ InitAgent(DefaultAgentConfig)
    /\ InitPrimary
    /\ InitAnalysis
    /\ InitScheduler
    /\ InitIds
    /\ InitPlugins
    /\ InitStream

SpecRegistry == InitSpecRegistry /\ [][NextRegistry]_vars

InitSpecTeardown ==
    /\ InitBus(DefaultBusConfig)
    /\ InitRegistry
    /\ InitAgent(DefaultAgentConfig)
    /\ InitPrimary
    /\ InitAnalysis
    /\ InitScheduler
    /\ InitIds
    /\ InitPlugins
    /\ InitStream

SpecTeardown == InitSpecTeardown /\ [][NextTeardown]_vars

InitSpecAgent ==
    /\ InitBus(DefaultBusConfig)
    /\ InitRegistry
    /\ \E cfg \in AgentConfigs : InitAgent(cfg)
    /\ InitPrimary
    /\ InitAnalysis
    /\ InitScheduler
    /\ InitIds
    /\ InitPlugins
    /\ InitStream

SpecAgent == InitSpecAgent /\ [][NextAgent]_vars

InitSpecPrimary ==
    /\ InitBus(DefaultBusConfig)
    /\ InitRegistry
    /\ InitAgent(DefaultAgentConfig)
    /\ InitPrimary
    /\ InitAnalysis
    /\ InitScheduler
    /\ InitIds
    /\ InitPlugins
    /\ InitStream

SpecPrimary == InitSpecPrimary /\ [][NextPrimary]_vars

InitSpecAnalysis ==
    /\ InitBus(DefaultBusConfig)
    /\ InitRegistry
    /\ InitAgent(DefaultAgentConfig)
    /\ InitPrimary
    /\ InitAnalysis
    /\ InitScheduler
    /\ InitIds
    /\ InitPlugins
    /\ InitStream

SpecAnalysis == InitSpecAnalysis /\ [][NextAnalysis]_vars

InitSpecForeground ==
    /\ InitForeground
    /\ InitRegistry
    /\ InitAgent([frequency |-> 1000, batchSize |-> 2, autoStart |-> FALSE])
    /\ InitPrimary
    /\ InitAnalysis
    /\ InitScheduler
    /\ InitIds
    /\ InitPlugins
    /\ InitStream

SpecForeground == InitSpecForeground /\ [][NextForeground]_vars

InitSpecScheduler ==
    /\ InitBus(DefaultBusConfig)
    /\ InitRegistry
    /\ InitAgent(DefaultAgentConfig)
    /\ InitPrimary
    /\ InitAnalysis
    /\ InitScheduler
    /\ InitIds
    /\ InitPlugins
    /\ InitStream

SpecScheduler == InitSpecScheduler /\ [][NextScheduler]_vars

InitSpecIds ==
    /\ InitBus(DefaultBusConfig)
    /\ InitRegistry
    /\ InitAgent(DefaultAgentConfig)
    /\ InitPrimary
    /\ InitAnalysis
    /\ InitScheduler
    /\ InitIds
    /\ InitPlugins
    /\ InitStream

SpecIds == InitSpecIds /\ [][NextIds]_vars

InitSpecPlugins ==
    /\ InitBus(DefaultBusConfig)
    /\ InitRegistry
    /\ InitAgent(DefaultAgentConfig)
    /\ InitPrimary
    /\ InitAnalysis
    /\ InitScheduler
    /\ InitIds
    /\ InitPlugins
    /\ InitStream

SpecPlugins == InitSpecPlugins /\ [][NextPlugins]_vars

InitSpecStream ==
    /\ InitBus(DefaultBusConfig)
    /\ InitRegistry
    /\ InitAgent(DefaultAgentConfig)
    /\ InitPrimary
    /\ InitAnalysis
    /\ InitScheduler
    /\ InitIds
    /\ InitPlugins
    /\ InitStream

SpecStream == InitSpecStream /\ [][NextStream]_vars

(***************************************************************************)
(* Claims about the event bus.                                             *)
(***************************************************************************)
Threw(c) == c.st \in {"threw", "rejected"}

\* C1: once a publish of a valid event has resolved, errorCount has grown by
\* exactly one per subscriber that threw or rejected: the bus counts the
\* errors its handlers raised and nothing else, and a publish that entered
\* dispatch invoked each subscriber once (distinct subscriptions in its log).
C1_ErrorCountIsThrowCount ==
    \A p \in Slots :
        pub[p].st = "resolved" =>
            /\ stats.errorCount = raisedErrors
            /\ \A i, j \in 1..Len(pub[p].calls) :
                   (i # j /\ pub[p].calls[i].via = "direct" /\ pub[p].calls[j].via = "direct")
                       => pub[p].calls[i].seq # pub[p].calls[j].seq

\* C9: a publish that has resolved has no handler call still pending: every
\* exact-type and pattern handler invoked for the event has settled.
C9_ResolvedOnlyAfterSettled ==
    \A p \in Slots :
        pub[p].st = "resolved" =>
            \A i \in 1..Len(pub[p].calls) : pub[p].calls[i].st # "pending"

\* A resolved publish whose exact-type handler and pattern handler both
\* returned promises, one resolved and one rejected.
C9_Witness ==
    \E p \in Slots :
        /\ pub[p].st = "resolved"
        /\ \E i, j \in 1..Len(pub[p].calls) :
               /\ pub[p].calls[i].via = "direct" /\ pub[p].calls[i].st = "rejected"
               /\ pub[p].calls[j].via = "pattern" /\ pub[p].calls[j].st = "resolved"

\* C10: within one publish the calls are made in this order: the exact-type
\* handlers in subscription order, then the pattern handlers, pattern by
\* pattern in the order the patterns were inserted and, within a pattern, in
\* the order its handlers were inserted; a pattern handler is called only
\* when every exact-type call has been made and has settled.
C10_DispatchOrder ==
    \A p \in Slots :
        \A i, j \in 1..Len(pub[p].calls) :
            LET a == pub[p].calls[i]
                b == pub[p].calls[j]
            IN  i < j =>
                    /\ a.via = "pattern" => b.via = "pattern"
                    /\ (a.via = "direct" /\ b.via = "direct") => a.seq < b.seq
                    /\ (a.via = "pattern" /\ b.via = "pattern") =>
                           \/ a.pseq < b.pseq
                           \/ a.pseq = b.pseq /\ a.seq < b.seq
                    /\ (a.via = "direct" /\ b.via = "pattern") => a.st # "pending"

\* A publish that called two exact-type handlers, the first of which threw.
C10_Witness ==
    \E p \in Slots :
        /\ pub[p].st = "resolved"
        /\ Len(pub[p].calls) >= 2
        /\ pub[p].calls[1].via = "direct" /\ pub[p].calls[1].st = "threw"
        /\ pub[p].calls[2].via = "direct"

\* C11: with the history enabled and historyLimit L, getEventHistory()
\* is the last min(n, L) of the n events published so far that passed
\* validation, in publish order, and never longer than L (without a
\* historyLimit L is the default, 1000).
C11_HistoryIsLastL ==
    config.enableEventHistory =>
        LET L == IF config.historyLimit = 0 THEN DefaultHistoryLimit ELSE config.historyLimit
        IN  /\ Len(getEventHistory(0)) <= L
            /\ getEventHistory(0) = SliceLast(accepted, L)
            /\ \A k \in 1..Len(accepted) : getEventHistory(k) = SliceLast(accepted, IF k < L THEN k ELSE L)

\* historyLimit 3 and five publishes e1..e5: the history is [e3, e4, e5].
C11_Witness ==
    /\ config.enableEventHistory
    /\ config.historyLimit = 3
    /\ accepted = <<1, 2, 3, 4, 5>>
    /\ getEventHistory(0) = <<3, 4, 5>>

RECURSIVE SumTo(_, _)
SumTo(w, i) == IF i = 0 THEN 0 ELSE w[i] + SumTo(w, i - 1)

\* The glob reading of a pattern: every token stands for itself, except
\* '*', which stands for any run of tokens; the whole type is covered.
GlobMatches(eventType, pattern) ==
    \E w \in [1..Len(pattern) -> 0..Len(eventType)] :
        /\ SumTo(w, Len(pattern)) = Len(eventType)
        /\ \A i \in 1..Len(pattern) :
               pattern[i] # "*" =>
                   /\ w[i] = 1
                   /\ SumTo(w, i) <= Len(eventType)
                   /\ eventType[SumTo(w, i)] = pattern[i]

\* The step in which a publish call leaves its direct phase.
DirectPhaseEnds(p) == pub[p].st = "direct" /\ pub'[p].st \in {"pattern", "resolved"}

\* The calls of pattern handlers made in that step.
PatternCalls(p) ==
    {c \in Range(pub'[p].calls) : c.via = "pattern"}

\* Every handler subscribed to a pattern is called in that step exactly
\* when the pattern matches the event's type.
PatternHandlersCalledIffMatch(p) ==
    \A i \in 1..Len(patternSubscriptions) :
        \A j \in 1..Len(patternSubscriptions[i].handlers) :
            GlobMatches(pub[p].event.type, patternSubscriptions[i].pattern)
                <=> \E c \in PatternCalls(p) :
                        /\ c.pseq = patternSubscriptions[i].pseq
                        /\ c.h = patternSubscriptions[i].handlers[j].h

\* C12 as stated: whenever an event is published, the handlers of exactly
\* the patterns that match its type are invoked.
C12_PatternHandlersInvoked ==
    [][\A p \in Slots : DirectPhaseEnds(p) => PatternHandlersCalledIffMatch(p)]_vars

\* C12 amended: on a bus configured with enablePatternMatching the
\* handlers of exactly the matching patterns are invoked, and on a bus
\* without it no pattern handler is invoked.
C12_PatternHandlersInvokedWhenEnabled ==
    [][\A p \in Slots : DirectPhaseEnds(p) =>
           IF config.enablePatternMatching
           THEN PatternHandlersCalledIffMatch(p)
           ELSE PatternCalls(p) = {}]_vars

\* A system.error event was published with handlers on "conversation.*"
\* and on "*": only the handler of "*" was called.
C12_Witness ==
    \E p \in Slots :
        /\ pub[p].st \in {"pattern", "resolved"}
        /\ pub[p].event.type = TypeSystemError
        /\ \E i, j \in 1..Len(patternSubscriptions) :
               /\ patternSubscriptions[i].pattern = PatConversation
               /\ patternSubscriptions[j].pattern = PatAny
               /\ \A c \in Range(pub[p].calls) :
                      c.via = "pattern" => c.pseq = patternSubscriptions[j].pseq
               /\ \E c \in Range(pub[p].calls) : c.via = "pattern"

\* An event publish must reject: a required field is missing or its data
\* is not a map.
Invalid(t, shape) ==
    \/ ~shape.hasId
    \/ t = <<>>
    \/ ~shape.hasSessionId
    \/ ~shape.hasTimestamp
    \/ shape.data # "object"

\* C13: publish of an event without id, type, sessionId or timestamp, or
\* whose data is not a map, is rejected to the caller: no handler is
\* invoked, nothing is appended to the history, totalEvents is unchanged.
C13_InvalidEventRejected ==
    [][\A p \in Slots, t \in Types \cup {<<>>}, shape \in EventShapes :
           \A outs \in [1..Len(ListenersOf(t)) -> CallOutcomes] :
               (Invalid(t, shape) /\ PublishStart(p, t, shape, outs))
                   => /\ pub'[p].st = "rejected"
                      /\ pub'[p].calls = <<>>
                      /\ eventHistory' = eventHistory
                      /\ stats'.totalEvents = stats.totalEvents]_vars

(***************************************************************************)
(* Claims about the service registry.                                      *)
(***************************************************************************)
\* The names a registered factory gets from the registry while it runs.
Callees(n) == IF services[n].registered THEN Range(Executed(services[n].src)) ELSE {}

RECURSIVE ReachIn(_, _)
ReachIn(set, k) ==
    IF k = 0 THEN set
    ELSE ReachIn(set \cup UNION {Callees(m) : m \in set}, k - 1)

\* The names reached from n by one or more calls.
Reach(n) == ReachIn(Callees(n), Cardinality(Names))

OnCallCycle(n) == n \in Reach(n)

CycleMembers(n) == {m \in Reach(n) : n \in Reach(m)}

Count(s, x) == Cardinality({i \in 1..Len(s) : s[i] = x})

\* C2: a factory that has never failed since it was registered has been
\* invoked at most once, whatever get and initializeAll calls were made, and
\* a get that returned gave its caller the memoized instance.
C2_FactoryInvokedOnce ==
    /\ \A n \in Names :
           (services[n].registered /\ services[n].fixed = Undefined /\ ~services[n].error)
               => factoryCalls[n] <= 1
    /\ (ret.op = "get" /\ ret.kind = "value") => ret.value = services[ret.name].instance

DeclaredAcyclic == ~topologicalSort(list).failed

FirstIndex(s, x) == CHOOSE i \in 1..Len(s) : s[i] = x /\ \A j \in 1..(i - 1) : s[j] # x

\* C4: when initializeAll has returned for an acyclic dependency graph whose
\* factories all succeeded, every service registered with a factory was
\* instantiated exactly once (its factory invoked once), and every service
\* after all of its declared dependencies.
C4_InitializeAllOnceInOrder ==
    (/\ call.op = "none"
     /\ ret.op = "initializeAll" /\ ret.kind = "results"
     /\ DeclaredAcyclic
     /\ \A n \in Names : ~services[n].error)
    => \A n \in Names :
           services[n].registered =>
               /\ services[n].fixed = Undefined =>
                      (Count(created, n) = 1 /\ factoryCalls[n] = 1)
               /\ \A i \in 1..Len(services[n].dependencies) :
                      LET d == services[n].dependencies[i]
                      IN  services[d].registered =>
                              /\ d \in Range(created)
                              /\ FirstIndex(created, d) < FirstIndex(created, n)

\* The registered names the text scan found in the factory of n.
DeclaredCallees(n) ==
    IF services[n].registered
    THEN {d \in Range(services[n].dependencies) : services[d].registered}
    ELSE {}

RECURSIVE DeclaredReachIn(_, _)
DeclaredReachIn(set, k) ==
    IF k = 0 THEN set
    ELSE DeclaredReachIn(set \cup UNION {DeclaredCallees(m) : m \in set}, k - 1)

DeclaredReach(n) == DeclaredReachIn(DeclaredCallees(n), Cardinality(Names))

\* n is on a dependency cycle, declared or called.
OnCycle(n) == n \in DeclaredReach(n) \/ OnCallCycle(n)

\* n depends, directly or not, on m.
DependsOn(n, m) == m \in DeclaredReach(n) \cup Reach(n)

\* The entries initializeAll returned for n.
ResultsFor(n) == {i \in 1..Len(ret.results) : ret.results[i].name = n}

\* C14: when the registered services contain a dependency cycle,
\* initializeAll still returns a result list, with one entry per service:
\* the services on the cycle are reported failed, and a service that is
\* neither on a cycle nor depends on one (and whose factory did not fail)
\* is initialized and reported successful.
C14_CycleFailsOnlyItsEntries ==
    (ret.op = "initializeAll" /\ \E n \in Names : services[n].registered /\ OnCycle(n))
    => /\ ret.kind = "results"
       /\ \A n \in Names :
              services[n].registered =>
                  /\ Cardinality(ResultsFor(n)) = 1
                  /\ OnCycle(n) => \A i \in ResultsFor(n) : ~ret.results[i].success
                  /\ (/\ ~OnCycle(n)
                      /\ \A m \in Names : DependsOn(n, m) => ~OnCycle(m)
                      /\ ~services[n].error)
                     => \A i \in ResultsFor(n) : ret.results[i].success

\* C15: initializeAll returns one result per registered service; a
\* service whose creation failed is reported with success = false and the
\* error, and every service that neither failed nor depends on a failed
\* one is instantiated and reported with success = true.
C15_FailureDoesNotAbortBatch ==
    ret.op = "initializeAll"
    => /\ ret.kind = "results"
       /\ \A n \in Names :
              services[n].registered =>
                  /\ Cardinality(ResultsFor(n)) = 1
                  /\ \A i \in ResultsFor(n) :
                         /\ ~ret.results[i].success
                                => (services[n].error /\ ret.results[i].error # NoExc)
                         /\ (/\ ~services[n].error
                             /\ \A m \in Names : DependsOn(n, m) => ~services[m].error)
                            => (ret.results[i].success /\ services[n].instance # Undefined)

\* C16: destroy() invokes the destroy hooks in reverse dependency order:
\* of two instantiated services with hooks, the one that depends on the
\* other has its hook invoked first.
C16_DependentsDestroyedFirst ==
    teardown.st \in {"running", "awaiting"} =>
        \A i, j \in 1..Len(destroyed) :
            i < j => ~DependsOn(destroyed[j], destroyed[i])

\* C17: destroy() never fails, whatever its hooks do; when its loop is
\* over every instantiated service with a destroy hook has had the hook
\* invoked exactly once and no other hook was invoked; and once destroy()
\* has resolved, has(name) is false for every name.
C17_EveryHookOnceThenEmpty ==
    /\ teardown.st # "rejected"
    /\ (teardown.st = "running" /\ teardown.queue = <<>>) =>
           \A n \in Names : Count(destroyed, n) = IF hasDestroyHook(n) THEN 1 ELSE 0
    /\ ret.op = "destroy" => (ret.kind = "resolved" /\ \A n \in Names : ~has(n))

\* destroy() has resolved after two hooks were invoked and one of them failed.
C17_Witness ==
    /\ ret.op = "destroy"
    /\ teardown.st = "resolved"
    /\ Len(destroyed) = 2
    /\ teardown.failed >= 1

\* C18: get runs to its return without yielding, so the steps of two
\* callers' get calls of one service interleave only as whole calls; every
\* get of a service whose factory has not failed returns after that factory
\* was invoked exactly once in total, with the one instance it constructed.
C18_ConcurrentGetConstructsOnce ==
    \A n \in Names :
        (/\ services[n].registered /\ services[n].fixed = Undefined /\ ~services[n].error
         /\ ret.op = "get" /\ ret.name = n /\ ret.kind = "value")
            => /\ factoryCalls[n] = 1
               /\ Count(created, n) = 1
               /\ ret.value = services[n].instance

\* C19: a get returns the instance of the latest registration of its name:
\* the instance handed to registerInstance, or an object constructed after
\* the name was last registered, never one memoized before.
C19_LastRegistrationWins ==
    \A n \in Names :
        (services[n].registered /\ ret.op = "get" /\ ret.name = n /\ ret.kind = "value")
            => IF services[n].fixed # Undefined
               THEN ret.value = services[n].fixed
               ELSE ret.value > 0 => ret.value >= services[n].mark

\* A name that had an instance was registered again, and a get of it then
\* returned a new object.
C19_Witness ==
    /\ overwritten
    /\ regCount = 2
    /\ ret.op = "get"
    /\ ret.kind = "value"
    /\ services[ret.name].mark = 2
    /\ ret.value = 2

(***************************************************************************)
(* Claims about the subconscious agent.                                    *)
(***************************************************************************)
\* C5: an agent with frequency 1000 ms whose timer was armed at t = 0 and
\* whose stop() returned at t = 2500 has performed exactly 2 scheduled
\* ticks, and no scheduled tick begins once stop() has returned (until the
\* agent is started again).
C5_TicksEndWithStop ==
    [][/\ (agentConfig.frequency = 1000 /\ startedAt' = 0 /\ stoppedAt' = 2500)
              => ticks' = 2
       /\ (ticks' = ticks + 1) => (stoppedAt = NoTime /\ status # "stopped")
       /\ (stoppedAt # NoTime /\ stoppedAt' = stoppedAt) => ticks' = ticks]_vars

\* Started at 0 with frequency 1000 and stopped at 2500, the agent ticked
\* twice and time went on to 3000 without another tick.
C5_Witness ==
    /\ agentConfig.frequency = 1000
    /\ startedAt = 0 /\ stoppedAt = 2500
    /\ status = "stopped"
    /\ now = 3000
    /\ ticks = 2

\* C6: a conversation.end event starts exactly one more analysis pass and
\* leaves the buffer alone until that pass has settled, and every turn
\* with content that is in the buffer when the handler clears it has been
\* in the transcript of some analysis pass.
C6_FinalPassCoversBuffer ==
    [][/\ \A s \in Sessions :
              EndEvent(s) => /\ InFlightPasses' = InFlightPasses + 1
                             /\ conversationBuffer' = conversationBuffer
       /\ \A p \in PassKinds :
              (p.who = "end" /\ Settle(p))
                  => \A i \in 1..Len(conversationBuffer) :
                         conversationBuffer[i].content
                             => conversationBuffer[i].id \in analysed]_vars

\* C7: the buffer only holds turn events of the agent's own session, and
\* no event of another session changes it: not when it is delivered, and
\* not when the handler of another session's end event resumes.
C7_BufferScopedToSession ==
    [][/\ \A i \in 1..Len(conversationBuffer') :
              conversationBuffer'[i].sessionId = context'.sessionId
       /\ \A shape \in TurnShapes :
              (shape.sessionId # context.sessionId /\ TurnEvent(shape))
                  => conversationBuffer' = conversationBuffer
       /\ \A s \in Sessions :
              (s # context.sessionId /\ (StartEvent(s) \/ EndEvent(s)))
                  => conversationBuffer' = conversationBuffer
       /\ \A p \in PassKinds :
              (p.sessionId # context.sessionId /\ Settle(p))
                  => conversationBuffer' = conversationBuffer]_vars

\* The arrival numbers of the turns delivered since the buffer was last
\* cleared, oldest first.
SinceClear == [i \in 1..(nextTurn - firstSinceClear) |-> firstSinceClear + i - 1]

C20_StatusFollowsLifecycle ==
    [][LET Arrows == {<<"initializing", "running">>, <<"running", "paused">>,
                      <<"running", "stopping">>, <<"paused", "stopping">>,
                      <<"stopping", "stopped">>}
                         \cup {<<st, "error">> : st \in AgentStatuses}
           Legal(writes) ==
               LET path == <<status>> \o writes
               IN  \A i \in 1..(Len(path) - 1) :
                       path[i] # path[i + 1] => <<path[i], path[i + 1]>> \in Arrows
       IN  /\ Initialize => Legal(initializeStatus)
           /\ Start => Legal(startStatus)
           /\ ((Stop \/ Destroy) /\ context # NoContext) => Legal(stopStatus)
           /\ status' # status => (Initialize \/ Start \/ Stop \/ Destroy)]_vars

(***************************************************************************)
(* Claims about BaseAgent and the primary agent.                           *)
(***************************************************************************)
\* C21: once initialize has failed in its subscription setup, or the
\* processing of an event has thrown, the status is "error", and a status
\* of "error" is never left.
C21_FailureMakesStatusError ==
    /\ []((tally.initFailed \/ primary.errorCount > 0) => primary.status = "error")
    /\ [][primary.status = "error" => primary'.status = "error"]_vars

\* The handleEvent calls of the agent's user that are in progress.
CallerCalls ==
    BagCardinality([c \in {d \in BagToSet(handling) : d.from = "caller"} |-> handling[c]])

\* C22: eventsProcessed counts the handleEvent calls that got past
\* ensureInitialized and have finished, one each; errorCount counts those
\* whose processing threw, and exactly those were rejected to their
\* caller; a call refused by ensureInitialized is in neither count.
C22_MetricsCountHandledEvents ==
    /\ primary.eventsProcessed = tally.resolved + tally.rejected + tally.fed
    /\ primary.errorCount = tally.rejected
    /\ tally.handed = tally.resolved + tally.rejected + tally.refused + CallerCalls

\* One call was refused before initialize, one threw in its processing.
C22_Witness ==
    /\ tally.refused = 1
    /\ tally.rejected = 1
    /\ primary.errorCount = 1
    /\ primary.eventsProcessed = 1

\* C23: when N conversation.turn events of a human have been handed to
\* handleEvent of the initialized, started agent and every call has
\* resolved, eventsProcessed is N.
C23_EventsProcessedIsEventsHanded ==
    (/\ handling = EmptyBag
     /\ tally.humans = tally.handed
     /\ tally.resolved = tally.handed)
        => primary.eventsProcessed = tally.handed


(***************************************************************************)
(* Claims about the subconscious agents' analysis.                         *)
(***************************************************************************)
\* C24: the error of a tick whose analysis throws never leaves the
\* interval's callback, and it leaves the timer armed with its next
\* callback one period after the failed one; an error of the completion,
\* caught inside performAnalysis, does not touch the timer either.
C24_TickErrorStaysInCallback ==
    /\ [](/\ effects.step = "tick" => ~effects.escaped
          /\ processingTimer # Undefined
                => processingTimer = startedAt + (ticks + 1) * agentConfig.frequency
          /\ (firstFailure > 0 /\ status = "running") => processingTimer # Undefined)
    /\ [][\A p \in PassKinds, answer \in Answers :
              (answer.kind = "throws" /\ AnalysisSettle(p, answer))
                  => UNCHANGED <<processingTimer, ticks>>]_vars

\* A tick threw, and a later tick of the same timer has just run.
C24_Witness ==
    /\ firstFailure >= 1
    /\ ticks > firstFailure
    /\ effects.step = "tick"

\* C25: a tick makes the analysis call exactly when the buffer holds a turn
\* with non-empty content and the transcript can be built; on an empty
\* buffer it calls nothing, publishes nothing and leaves the state alone;
\* the pass publishes one analysis event, carrying the merged state,
\* exactly when the completion brings a result, and no event otherwise.
C25_TickPublishesOnceOnContent ==
    [][/\ AnalysisTick =>
            /\ effects'.called
                  = (/\ \E i \in 1..Len(conversationBuffer) : conversationBuffer[i].content
                     /\ ~transcriptThrows(conversationBuffer))
            /\ effects'.published = <<>>
            /\ currentSummary' = currentSummary
            /\ conversationBuffer = <<>> => (~effects'.called /\ llm' = llm)
       /\ \A p \in PassKinds, answer \in Answers :
            AnalysisSettle(p, answer) =>
                /\ Len(effects'.published) = (IF answer.kind = "result" THEN 1 ELSE 0)
                /\ answer.kind = "result" => effects'.published = <<currentSummary'>>
                /\ answer.kind # "result" => currentSummary' = currentSummary
                /\ BagIn(p, llm) \/ answer.kind = "none"]_vars

\* The pass of a tick has just published its result.
C25_Witness ==
    /\ effects.step = "settle"
    /\ effects.who = "analysis"
    /\ Len(effects.published) = 1
    /\ effects.published[1].summary # ""

\* C26: a conversation.end event delivered to a stopped agent starts one
\* analysis pass, although the timer is cleared.
C26_EndAfterStopForcesOnePass ==
    (effects.step = "end" /\ status = "stopped")
        => (effects.passes = 1 /\ processingTimer = Undefined)

\* The end event of a stopped agent has just sent a transcript for analysis.
C26_Witness ==
    /\ effects.step = "end"
    /\ status = "stopped"
    /\ effects.called
    /\ BagIn([who |-> "end", sessionId |-> OwnSession], llm)

\* C27: mergeTopics turns {billing, refund} and {refund, account} into
\* {billing, refund, account}; merging is idempotent and, as a set,
\* associative and commutative; the topics of the summary are, without
\* repetition, the topics of all the results merged so far.
C27_MergeTopicsIsSetUnion ==
    /\ mergeTopics(<<"billing", "refund">>, <<"refund", "account">>)
           = <<"billing", "refund", "account">>
    /\ mergeTopicsLaws
    /\ Range(currentSummary.topics) = topicsSeen
    /\ Len(currentSummary.topics) = Cardinality(topicsSeen)

\* The two results with topics were merged, in the order of the example.
C27_Witness == currentSummary.topics = <<"billing", "refund", "account">>

\* C28: when a pass merges a result, every scalar field the result brings
\* replaces the old value, and every list field becomes the union of the
\* old list and the returned one.
C28_ScalarsLastWriteListsUnion ==
    [][\A p \in PassKinds, answer \in Answers :
          (answer.kind = "result" /\ AnalysisSettle(p, answer)) =>
              /\ currentSummary'.summary
                    = (IF answer.result.summary # "" THEN answer.result.summary
                       ELSE currentSummary.summary)
              /\ Range(currentSummary'.topics)
                    = Range(currentSummary.topics) \cup Range(answer.result.topics)
              /\ Range(currentSummary'.keyPoints)
                    = Range(currentSummary.keyPoints)
                        \cup (IF answer.result.hasKeyPoints
                              THEN Range(answer.result.keyPoints) ELSE {})]_vars

\* C29: a conversation.start event delivered to the agent puts the
\* accumulated analysis state back to its initial value.
C29_StartClearsAnalysisState ==
    [][\A s \in AnalysisSession :
          (context # NoContext /\ StartEvent(s)) => currentSummary' = InitialSummary]_vars


C39_TickLeavesBuffer ==
    [][/\ TimerTick => conversationBuffer' = conversationBuffer
       /\ \A p \in PassKinds :
              (p.who = "analysis" /\ Settle(p)) => conversationBuffer' = conversationBuffer
       /\ (\E i \in 1..Len(conversationBuffer) :
              \A j \in 1..Len(conversationBuffer') :
                  conversationBuffer'[j].id # conversationBuffer[i].id)
            => \/ \E s \in Sessions : StartEvent(s)
               \/ \E p \in PassKinds : p.who = "end" /\ Settle(p)
               \/ \E shape \in TurnShapes :
                      /\ TurnEvent(shape)
                      /\ Len(conversationBuffer) >= maxBufferSize(agentConfig)]_vars

\* A tick has run, every pass has completed, and a turn that was sent for
\* analysis is still in the buffer.
C39_Witness ==
    /\ ticks >= 1
    /\ passes = EmptyBag
    /\ \E i \in 1..Len(conversationBuffer) : conversationBuffer[i].id \in analysed


\* C36: at most one analysis pass of the agent is in flight at any time,
\* so that results are applied in the order in which the passes started.
C36_OnePassInFlight == InFlightPasses <= 1


\* C37: while the agent is stopped, the pass of a tick that was in flight
\* when stop() was called publishes no analysis event and leaves the
\* analysis state alone when its completion arrives.
C37_StoppedAgentIsQuiet ==
    [][\A p \in PassKinds, answer \in Answers :
          (status = "stopped" /\ p.who = "analysis" /\ AnalysisSettle(p, answer))
              => (currentSummary' = currentSummary /\ effects'.published = <<>>)]_vars


(***************************************************************************)
(* Claims about the lifecycle of the registry's entries.                   *)
(***************************************************************************)
\* C40: an entry is "initializing" only while its name is on the
\* initialization stack; when no get is executing (no factory on the call
\* stack) the stack is empty and every registered entry is "registered",
\* "initialized" or "error".
C40_InitializingOnlyOnStack ==
    /\ \A n \in Names :
           services[n].lifecycle = "initializing" => n \in Range(initializationStack)
    /\ frames = <<>> =>
           /\ initializationStack = <<>>
           /\ \A n \in Names :
                  services[n].registered
                      => services[n].lifecycle \in {"registered", "initialized", "error"}

\* No get is executing; one get has thrown and one has returned.
C40_Witness ==
    /\ frames = <<>>
    /\ call.op = "none"
    /\ \E n \in Names : services[n].registered /\ services[n].lifecycle = "error"
    /\ \E n \in Names : services[n].registered /\ services[n].lifecycle = "initialized"


(***************************************************************************)
(* Claims about the statistics of the bus.                                 *)
(***************************************************************************)
\* C34: totalEvents is the number of publish calls that passed validation
\* and completed their dispatch, and errorCount is 0 as long as no handler
\* has thrown or rejected and no publish was rejected.
C34_StatsCountPublishes ==
    /\ stats.totalEvents
           = Len(accepted) - Cardinality({p \in Slots : InFlight(p)})
    /\ raisedErrors = 0 => stats.errorCount = 0


\* C35: each tick whose analysis fails increases the errorCount of the
\* agent's metrics by exactly 1, and a tick that succeeds leaves it
\* unchanged.
C35_TickErrorsAreCounted ==
    [][\A h \in Handles, outcome \in PassOutcomes :
          SchedulerTick(h, outcome)
              => subconscious'.metrics.errorCount
                    = subconscious.metrics.errorCount + (IF outcome = "ok" THEN 0 ELSE 1)]_vars

\* C38: the runtime holds at most one interval of the agent, the one in
\* processingTimer, however many times start() was called; after stop()
\* it holds none.
C38_OneArmedTimer ==
    /\ Cardinality(intervals) <= 1
    /\ intervals = (IF subconscious.processingTimer = Undefined THEN {}
                    ELSE {subconscious.processingTimer})
    /\ ledger.last = "stop" => intervals = {}

\* The timer was armed twice without a stop between (initialize with
\* autoStart, then start), and has fired since.
C38_Witness ==
    /\ ledger.starts = 2
    /\ ledger.fired >= 1
    /\ Cardinality(intervals) = 1


(***************************************************************************)
(* Claims about the ids of events.                                         *)
(***************************************************************************)
\* C32: no two published events have the same id, whichever helper made
\* them and however little time lies between them.
C32_PublishedIdsAreDistinct ==
    \A i \in 1..Len(issued), j \in 1..Len(issued) : i # j => issued[i] # issued[j]

(***************************************************************************)
(* Claims about the tool plugins.                                          *)
(***************************************************************************)
\* C33: executeTool(name) dispatches to exactly one plugin, the
\* earliest-registered of the plugins that declare a tool of that name, never
\* to one registered later; it fails with an error and executes nothing when
\* no plugin declares the tool.
C33_FirstRegistrantOwnsTool ==
    [][\A name \in ToolNames : executeTool(name) =>
          LET declaring == {i \in 1..Len(toolPlugins) : name \in toolPlugins[i].tools}
          IN  IF declaring = {}
              THEN dispatch'.error /\ dispatch'.executed = {}
              ELSE /\ ~dispatch'.error
                   /\ \E i \in declaring :
                         /\ dispatch'.executed = {toolPlugins[i].registeredAt}
                         /\ \A j \in declaring :
                               toolPlugins[i].registeredAt
                                   <= toolPlugins[j].registeredAt]_vars

(***************************************************************************)
(* Claims about the abort of the primary agent's completion.               *)
(***************************************************************************)
\* The text chunks completion c published.
TextChunksOf(c) ==
    {i \in 1..Len(emissions) : /\ emissions[i].type = "conversation.text-chunk"
                               /\ emissions[i].completion = c}

\* A message of the history that carries the mark of an interrupted turn.
MarkedInterrupted(message) ==
    "status" \in DOMAIN message /\ message.status = "interrupted"

\* C31: once a completion aborted between its chunks has wound down, no text
\* chunk of it was published after the abort, the chunks published before are
\* still there, and the history holds the turn marked as interrupted, not as
\* a complete assistant message.
C31_AbortedTurnIsInterrupted ==
    \A a \in 1..Len(aborts) :
        (aborts[a].completion # generating.id \/ generating.state = "idle") =>
            /\ \A i \in TextChunksOf(aborts[a].completion) : ~emissions[i].afterAbort
            /\ Cardinality(TextChunksOf(aborts[a].completion)) >= aborts[a].chunks
            /\ \E m \in 1..Len(conversationHistory) :
                  /\ conversationHistory[m].role = "assistant"
                  /\ conversationHistory[m].completion = aborts[a].completion
                  /\ MarkedInterrupted(conversationHistory[m])
            /\ \A m \in 1..Len(conversationHistory) :
                  (/\ conversationHistory[m].role = "assistant"
                   /\ conversationHistory[m].completion = aborts[a].completion)
                      => MarkedInterrupted(conversationHistory[m])

====
